---- MODULE Spec2Model ----
(***************************************************************************)
(* Festivalportalen: the ticket sync job (supabase/functions/ticketco-sync)*)
(* together with the ledger aggregation / CSV export helpers and the       *)
(* row-level policies of the storage schema.                               *)
(*                                                                         *)
(* Time is a logical clock `now` that counts half milliseconds, so that    *)
(* the microsecond instants of the storage (timestamptz) and the           *)
(* millisecond instants of a JavaScript Date differ.  The default          *)
(* watermark 2020-01-01 is clock value Epoch, which lies before every      *)
(* instant the model reaches.                                              *)
(* Text values that the code inspects character by character are modelled *)
(* as sequences of one-character strings.                                  *)
(***************************************************************************)
EXTENDS Integers, Sequences, FiniteSets, TLC

VARIABLES
    \* ---- storage -------------------------------------------------------
    integrations,   \* festival_integrations: festival -> [ticketco_api_key, ticketco_event_id]
    ticket_sales,   \* ticket_sales rows, in insertion order
    sync_log,       \* ticketco_sync_log rows, in insertion order
    \* ---- environment ---------------------------------------------------
    now,            \* wall clock
    provider,       \* TicketCo: event -> orders of the event, in creation order
    nextOrderId,    \* TicketCo's order id counter (ids are global to the provider)
    \* ---- one invocation of the Deno.serve handler ----------------------
    pc,             \* position of the handler
    festivalId,     \* body.festival_id ?? null
    queue,          \* integrations still to be processed by the for loop
    cur,            \* festival_id of the integration being processed
    sinceDate,      \* since bound of the current tenant run
    page,           \* page counter of the pagination loop
    allOrders,      \* orders accumulated by the pagination loop
    salesRows,      \* rows transformed by the current tenant run
    results,        \* results array of the invocation
    response,       \* last response sent
    runs,           \* number of tenant runs the runs so far have been given
    \* ---- history (not program state) -----------------------------------
    runStartSales,  \* ticket_sales as it was when the current tenant run started
    invStartLen,    \* number of sync_log rows when the current invocation started
    fetched,        \* pages answered 2xx in the latest tenant run
    midRun,         \* orders placed between a tenant run's last fetch and its log entry
    \* ---- CSV export: one exporter call ---------------------------------
    csvText,        \* the text the exported record carries in its free-text fields
    csvNulls,       \* whether its nullable text fields (description, source, supplier) are null
    csvExporter,    \* the exporter that ran last
    csvRows,        \* the free-text cells that exporter wrote, row by row
    csvAmount,      \* the record's price or amount and its VAT amount: null or a number
    csvNumbers,     \* the numeric cells that exporter wrote
    \* ---- ledger aggregation: one aggregator call -----------------------
    records,        \* the sales, income and expense records handed to the aggregators
    vatOut,         \* path and amounts of the aggregator that ran last
    \* ---- row-level policies --------------------------------------------
    user_profiles,        \* user -> [festival_id, role]
    sponsor_deliverables, \* rows of sponsor_deliverables
    lastRead,             \* the row the latest SELECT returned, and to whom
    \* ---- history (not program state) -----------------------------------
    placedIn,             \* user -> festival an administrator placed the user in
    \* ---- line classification: one order line ---------------------------
    lineCategory,   \* the category of the order line: absent or a text
    classified,     \* the category the sync job gave the line's row
    \* ---- sales summaries: one call of a function of sales-utils -------
    salesIn,        \* the ticket sales handed to the function
    utilOut,        \* the function that ran last, its further arguments and its result
    \* ---- budget against actual: one rendering of a page ----------------
    incomeRecords,  \* the income records the page loaded
    expenseRecords, \* the expense records the page loaded
    budgetOut,      \* the page that rendered last and its budgetVsActual rows
    \* ---- toggle-user: requests in flight --------------------------------
    banned,         \* auth user -> whether banned_until lies in the future
    toggle,         \* request -> its inputs, the handler's position and its answer
    \* ---- PDF reports: one report being laid out --------------------------
    pdfIn,          \* the report and the sizes of what it is generated from
    pdfPc,          \* the section the generator is about to lay out
    pdfSponsor,     \* sponsor report: the sponsor the deliverables loop is at
    pdfY,           \* the vertical cursor y, in mm from the top of the page
    pdfPage,        \* the page the cursor is on
    pdfHeaders,     \* the section headers drawn so far: section, page and y
    \* ---- AuthProvider: one browser tab ------------------------------------
    clientSession,      \* whether the Supabase client holds a session of the user
    dbProfile,          \* the user's row of user_profiles: has_password, festival_id
    authSession,        \* the state session of AuthProvider: null or the user's
    authProfile,        \* the state profile: null or a row read earlier
    authFestival,       \* the state festival: null or a festival
    authLoading,        \* the state loading
    isPasswordRecovery, \* the state isPasswordRecovery
    inFlight,           \* the promises not yet settled: what is awaited, and by whom
    \* ---- history (not program state) ---------------------------------------
    arrivedByRecovery   \* the user arrived through a recovery link and has set no password since

syncVars == <<integrations, ticket_sales, sync_log, now, provider, nextOrderId,
              pc, festivalId, queue, cur, sinceDate, page, allOrders, salesRows,
              results, response, runs, runStartSales, invStartLen, fetched,
              midRun>>

csvVars == <<csvText, csvNulls, csvExporter, csvRows, csvAmount, csvNumbers>>

vatVars == <<records, vatOut>>

rlsVars == <<user_profiles, sponsor_deliverables, lastRead, placedIn>>

clsVars == <<lineCategory, classified>>

utilVars == <<salesIn, utilOut>>

bvaVars == <<incomeRecords, expenseRecords, budgetOut>>

tgVars == <<banned, toggle>>

pdfVars == <<pdfIn, pdfPc, pdfSponsor, pdfY, pdfPage, pdfHeaders>>

authVars == <<clientSession, dbProfile, authSession, authProfile, authFestival, authLoading, isPasswordRecovery, inFlight, arrivedByRecovery>>

vars == <<syncVars, csvVars, vatVars, rlsVars, clsVars, utilVars, bvaVars, tgVars, pdfVars, authVars>>

\* what the steps of one part leave alone
notSync == <<csvVars, vatVars, rlsVars, clsVars, utilVars, bvaVars, tgVars, pdfVars, authVars>>
notCsv == <<syncVars, vatVars, rlsVars, clsVars, utilVars, bvaVars, tgVars, pdfVars, authVars>>
notVat == <<syncVars, csvVars, rlsVars, clsVars, utilVars, bvaVars, tgVars, pdfVars, authVars>>
notRls == <<syncVars, csvVars, vatVars, clsVars, utilVars, bvaVars, tgVars, pdfVars, authVars>>
notCls == <<syncVars, csvVars, vatVars, rlsVars, utilVars, bvaVars, tgVars, pdfVars, authVars>>
notUtil == <<syncVars, csvVars, vatVars, rlsVars, clsVars, bvaVars, tgVars, pdfVars, authVars>>
notBva == <<syncVars, csvVars, vatVars, rlsVars, clsVars, utilVars, tgVars, pdfVars, authVars>>
notTg == <<syncVars, csvVars, vatVars, rlsVars, clsVars, utilVars, bvaVars, pdfVars, authVars>>
notPdf == <<syncVars, csvVars, vatVars, rlsVars, clsVars, utilVars, bvaVars, tgVars, authVars>>
notAuth == <<syncVars, csvVars, vatVars, rlsVars, clsVars, utilVars, bvaVars, tgVars, pdfVars>>

NULL == "null"
NoResponse == [pending |-> TRUE]

\* ---- bounds ------------------------------------------------------------
MaxClock == 4
MaxOrders == 1
MaxRuns == 2
ProviderPageCap == 1
MaxLen == 2
MaxRecords == 2
MaxDeliverables == 1
MaxSales == 3
MaxCategoryLen == 3
MaxUtilSales == 3
MaxPageOrders == 3

\* ---- program constants -------------------------------------------------
Epoch == 0
TicksPerMilli == 2
\* the first instant the model looks at: after the epoch default, and not a whole
\* millisecond
StartTime == Epoch + TicksPerMilli + 1
PerPage == 100
BatchSize == 500

Festivals == {"f1", "f2"}
Events == {"e1", "e2"}
HttpErrors == {500}

Min(a, b) == IF a < b THEN a ELSE b

RECURSIVE FlatMap(_, _)
FlatMap(F(_), s) == IF s = <<>> THEN <<>> ELSE F(Head(s)) \o FlatMap(F, Tail(s))

SeqMap(F(_), s) == [i \in 1..Len(s) |-> F(s[i])]

Range(s) == {s[i] : i \in 1..Len(s)}

Perms(S) == {q \in [1..Cardinality(S) -> S] : Range(q) = S}

\* ---- text helpers ------------------------------------------------------
toLowerCase(str) ==
    LET lower(c) == CASE c = "A" -> "a" [] c = "B" -> "b" [] c = "D" -> "d"
                      [] c = "E" -> "e" [] c = "F" -> "f" [] c = "G" -> "g"
                      [] c = "I" -> "i" [] c = "K" -> "k" [] c = "M" -> "m"
                      [] c = "O" -> "o" [] c = "R" -> "r" [] c = "T" -> "t"
                      [] c = "V" -> "v" [] OTHER -> c
    IN  [i \in 1..Len(str) |-> lower(str[i])]

includes(str, sub) ==
    \E i \in 1..(Len(str) - Len(sub) + 1) : SubSeq(str, i, i + Len(sub) - 1) = sub

\* ---- TicketCo ----------------------------------------------------------
\* Order lines a provider order can carry (TicketCoOrder.order_lines); the optional
\* category is <<>> when absent and <<text>> when present.
LineDagspass == [id |-> 1, title |-> "Dagspass", quantity |-> 1, price |-> 125,
                 vat_amount |-> 25, vat_rate |-> 25, category |-> <<>>]
LineOl == [id |-> 2, title |-> "Olbillett", quantity |-> 2, price |-> 100,
           vat_amount |-> 20, vat_rate |-> 25,
           category |-> <<(<<"M", "a", "t", "/", "d", "r", "i", "k", "k", "e">>)>>]

\* what the customer of order number id bought, and where
OrderShape(id) ==
    IF id % 2 = 1 THEN [order_lines |-> <<LineOl, LineDagspass>>, source |-> "pos"]
    ELSE [order_lines |-> <<LineDagspass>>, source |-> "web"]

\* GET /events/<event>/orders?since=..&page=..&per_page=100
ProviderPage(event, since, p) ==
    LET matching == SelectSeq(provider[event], LAMBDA o : o.created_at >= since)
        size == Min(PerPage, ProviderPageCap)
        first == (p - 1) * size + 1
        last == Min(p * size, Len(matching))
    IN  SubSeq(matching, first, last)

\* ---- sync job: pure parts ----------------------------------------------
\* the watermark query without its status filter
LastSyncAnyStatus(log, f) ==
    LET any == {i \in 1..Len(log) : log[i].festival_id = f}
    IN  IF any = {} THEN <<>>
        ELSE LET i == CHOOSE i \in any : \A j \in any : log[j].synced_at <= log[i].synced_at
             IN  <<log[i]>>

\* .eq(festival_id).eq(status, success).order(synced_at desc).limit(1): zero or one row
LastSync(log, f) ==
    LET ok == {i \in 1..Len(log) : log[i].festival_id = f /\ log[i].status = "success"}
    IN  IF ok = {} THEN <<>>
        ELSE LET i == CHOOSE i \in ok : \A j \in ok : log[j].synced_at <= log[i].synced_at
             IN  <<log[i]>>

\* new Date(x).toISOString(): a Date holds whole milliseconds
toISOString(t) == t - (t % TicksPerMilli)

SinceDate(log, f) ==
    IF LastSync(log, f) # <<>> THEN toISOString(LastSync(log, f)[1].synced_at)
    ELSE toISOString(Epoch)

isFoodCaseSensitive(line) ==
    LET category == IF line.category = <<>> THEN <<>> ELSE line.category[1]
    IN  \/ includes(category, <<"f", "o", "o", "d">>)
        \/ includes(category, <<"m", "a", "t">>)
        \/ includes(category, <<"d", "r", "i", "k", "k", "e">>)
        \/ includes(category, <<"b", "e", "v", "e", "r", "a", "g", "e">>)

isFood(line) ==
    LET category == IF line.category = <<>> THEN <<>> ELSE line.category[1]
    IN  \/ includes(toLowerCase(category), <<"f", "o", "o", "d">>)
        \/ includes(toLowerCase(category), <<"m", "a", "t">>)
        \/ includes(toLowerCase(category), <<"d", "r", "i", "k", "k", "e">>)
        \/ includes(toLowerCase(category), <<"b", "e", "v", "e", "r", "a", "g", "e">>)

\* a row mapping that stores the gross price as the net price and the percentage
\* as the rate
SalesRowGrossAsNet(festival_id, order, line, t) ==
    [festival_id |-> festival_id,
     ticketco_id |-> <<order.id, "-", line.id>>,
     ticket_type |-> line.title,
     category |-> IF isFood(line) THEN "fb" ELSE "ticket",
     quantity |-> line.quantity,
     price_ex_vat |-> line.price,
     vat_rate |-> <<line.vat_rate, 1>>,
     vat_amount |-> line.vat_amount,
     price_inc_vat |-> line.price,
     sale_channel |-> IF order.source = "pos" THEN "pos" ELSE "web",
     sold_at |-> order.created_at,
     synced_at |-> toISOString(t)]

\* vat_rate: line.vat_rate / 100, kept as the exact fraction
SalesRow(festival_id, order, line, t) ==
    [festival_id |-> festival_id,
     ticketco_id |-> <<order.id, "-", line.id>>,
     ticket_type |-> line.title,
     category |-> IF isFood(line) THEN "fb" ELSE "ticket",
     quantity |-> line.quantity,
     price_ex_vat |-> line.price - line.vat_amount,
     vat_rate |-> <<line.vat_rate, 100>>,
     vat_amount |-> line.vat_amount,
     price_inc_vat |-> line.price,
     sale_channel |-> IF order.source = "pos" THEN "pos" ELSE "web",
     sold_at |-> order.created_at,
     synced_at |-> toISOString(t)]

SalesRows(festival_id, orders, t) ==
    LET linesOf(order) == SeqMap(LAMBDA line : SalesRow(festival_id, order, line, t),
                                 order.order_lines)
    IN  FlatMap(linesOf, orders)

\* a plain insert where the upsert belongs
UpsertRowAsInsert(rows, r) == Append(rows, r)

\* .upsert(batch, { onConflict: 'ticketco_id' }) of one row
UpsertRow(rows, r) ==
    IF \E i \in 1..Len(rows) : rows[i].ticketco_id = r.ticketco_id
    THEN [i \in 1..Len(rows) |-> IF rows[i].ticketco_id = r.ticketco_id THEN r ELSE rows[i]]
    ELSE Append(rows, r)

RECURSIVE UpsertBatch(_, _)
UpsertBatch(rows, batch) ==
    IF batch = <<>> THEN rows
    ELSE UpsertBatch(UpsertRow(rows, Head(batch)), Tail(batch))

\* for (let i = 0; i < salesRows.length; i += 500) upsert(salesRows.slice(i, i + 500))
RECURSIVE UpsertInBatches(_, _, _)
UpsertInBatches(rows, sRows, i) ==
    IF i >= Len(sRows) THEN rows
    ELSE UpsertInBatches(UpsertBatch(rows, SubSeq(sRows, i + 1, Min(i + BatchSize, Len(sRows)))),
                         sRows, i + BatchSize)

SuccessLog(f, n, t) ==
    [festival_id |-> f, synced_at |-> t, records_synced |-> n,
     status |-> "success", error_message |-> NULL]

ErrorLog(f, msg, t) ==
    [festival_id |-> f, synced_at |-> t, records_synced |-> 0,
     status |-> "error", error_message |-> msg]

\* the message without the status line of the response
ApiErrorMessageBare(status) == <<"TicketCo API error: ">>

ApiErrorMessage(status) ==
    <<"TicketCo API error: ", status,
      IF status = 404 THEN "Not Found" ELSE "Internal Server Error">>

JsonErrorMessage == <<"Unexpected token in JSON">>

\* festival_integrations query: api key not null, optionally eq festival_id
\* the query without the festival_id filter
ConfiguredUnscoped(fid) ==
    {f \in Festivals : integrations[f].ticketco_api_key # NULL}

\* the query without the api key filter
ConfiguredAnyKey(fid) ==
    {f \in Festivals : fid # NULL => f = fid}

Configured(fid) ==
    {f \in Festivals : /\ integrations[f].ticketco_api_key # NULL
                       /\ (fid # NULL => f = fid)}

\* ---- initial state -----------------------------------------------------
\* festival_integrations as configured: f1 syncs event e1; f2 has no api key, or
\* syncs its own event, or is pointed at the event f1 syncs.
IntegrationConfigs ==
    {c \in [Festivals -> [ticketco_api_key : {NULL, "key"}, ticketco_event_id : Events]] :
        /\ c["f1"] = [ticketco_api_key |-> "key", ticketco_event_id |-> "e1"]
        /\ (c["f2"].ticketco_api_key = NULL => c["f2"].ticketco_event_id = "e2")}

SyncInit ==
    /\ integrations \in IntegrationConfigs
    /\ ticket_sales = <<>>
    /\ sync_log = <<>>
    /\ now = StartTime
    /\ provider = [e \in Events |-> <<>>]
    /\ nextOrderId = 1
    /\ pc = "idle"
    /\ festivalId = NULL
    /\ queue = <<>>
    /\ cur = NULL
    /\ sinceDate = Epoch
    /\ page = 1
    /\ allOrders = <<>>
    /\ salesRows = <<>>
    /\ results = <<>>
    /\ response = NoResponse
    /\ runs = 0
    /\ runStartSales = <<>>
    /\ invStartLen = 0
    /\ fetched = 0
    /\ midRun = {}


\* ---- environment -------------------------------------------------------
Tick ==
    /\ now < MaxClock
    /\ now' = now + 1
    /\ UNCHANGED <<integrations, ticket_sales, sync_log, provider, nextOrderId,
                   pc, festivalId, queue, cur, sinceDate, page, allOrders, salesRows,
                   results, response, runs, runStartSales, invStartLen, fetched>>
    /\ UNCHANGED midRun
    /\ UNCHANGED notSync

\* a customer places an order at the provider
ProviderCreateOrder ==
    /\ nextOrderId <= MaxOrders
    /\ \E e \in Events :
         /\ provider' = [provider EXCEPT ![e] =
                        Append(@, [id |-> nextOrderId, created_at |-> now,
                                   order_lines |-> OrderShape(nextOrderId).order_lines,
                                   source |-> OrderShape(nextOrderId).source])]
         /\ midRun' = IF pc \in {"store", "logok"}
                         /\ integrations[cur].ticketco_event_id = e
                       THEN midRun \cup {[festival_id |-> cur, order |-> nextOrderId,
                                          logged |-> Len(sync_log)]}
                       ELSE midRun
    /\ nextOrderId' = nextOrderId + 1
    /\ UNCHANGED <<integrations, ticket_sales, sync_log, now,
                   pc, festivalId, queue, cur, sinceDate, page, allOrders, salesRows,
                   results, response, runs, runStartSales, invStartLen, fetched>>
    /\ UNCHANGED notSync

\* ---- Deno.serve handler ------------------------------------------------
\* request parsing and the festival_integrations query (lines 37-66)
Invoke ==
    /\ pc = "idle"
    /\ \E fid \in Festivals \cup {NULL} :
         IF Configured(fid) = {}
         THEN /\ response' = [message |-> "No festivals with TicketCo configured"]
              /\ UNCHANGED <<pc, festivalId, queue, results, runs>>
         ELSE /\ runs + Cardinality(Configured(fid)) <= MaxRuns
              /\ runs' = runs + Cardinality(Configured(fid))
              /\ festivalId' = fid
              /\ queue' \in Perms(Configured(fid))
              /\ results' = <<>>
              /\ pc' = "loop"
              /\ response' = NoResponse
    /\ invStartLen' = Len(sync_log)
    /\ UNCHANGED <<integrations, ticket_sales, sync_log, now, provider, nextOrderId,
                   cur, sinceDate, page, allOrders, salesRows, runStartSales, fetched>>
    /\ UNCHANGED midRun
    /\ UNCHANGED notSync

\* next iteration of the for loop: read the watermark (lines 68-94)
TenantStart ==
    /\ pc = "loop"
    /\ queue # <<>>
    /\ cur' = Head(queue)
    /\ queue' = Tail(queue)
    /\ sinceDate' = SinceDate(sync_log, Head(queue))
    /\ page' = 1
    /\ allOrders' = <<>>
    /\ salesRows' = <<>>
    /\ runStartSales' = ticket_sales
    /\ fetched' = 0
    /\ pc' = "fetch"
    /\ UNCHANGED <<integrations, ticket_sales, sync_log, now, provider, nextOrderId,
                   festivalId, results, response, runs, invStartLen>>
    /\ UNCHANGED midRun
    /\ UNCHANGED notSync

\* the block-scoped locals of one loop iteration go out of scope
LeaveIteration ==
    /\ cur' = NULL
    /\ sinceDate' = Epoch
    /\ page' = 1
    /\ allOrders' = <<>>
    /\ salesRows' = <<>>
    /\ runStartSales' = <<>>

\* a catch that gives up on the tenants still queued
CatchAbortsLoop(msg) ==
    /\ sync_log' = Append(sync_log, ErrorLog(cur, msg, now))
    /\ results' = Append(results, [festival_id |-> cur, status |-> "error", error |-> msg])
    /\ pc' = "loop"
    /\ queue' = <<>>
    /\ LeaveIteration
    /\ UNCHANGED <<integrations, ticket_sales, now, provider, nextOrderId,
                   festivalId, response, runs, invStartLen, fetched>>
    /\ UNCHANGED midRun
    /\ UNCHANGED notSync

\* catch (err): error log entry and error result (lines 163-177)
Catch(msg) ==
    /\ sync_log' = Append(sync_log, ErrorLog(cur, msg, now))
    /\ results' = Append(results, [festival_id |-> cur, status |-> "error", error |-> msg])
    /\ pc' = "loop"
    /\ LeaveIteration
    /\ UNCHANGED <<integrations, ticket_sales, now, provider, nextOrderId,
                   festivalId, queue, response, runs, invStartLen, fetched>>
    /\ UNCHANGED midRun
    /\ UNCHANGED notSync

\* a loop that keeps the latest page only
FetchPageOkKeepsLastPage ==
    /\ pc = "fetch"
    /\ LET orders == ProviderPage(integrations[cur].ticketco_event_id, sinceDate, page)
       IN  IF Len(orders) = 0
           THEN /\ pc' = "store"
                /\ UNCHANGED <<allOrders, page>>
           ELSE /\ allOrders' = orders
                /\ page' = page + 1
                /\ UNCHANGED pc
    /\ fetched' = fetched + 1
    /\ UNCHANGED <<integrations, ticket_sales, sync_log, now, provider, nextOrderId,
                   festivalId, queue, cur, sinceDate, salesRows,
                   results, response, runs, runStartSales, invStartLen>>
    /\ UNCHANGED midRun
    /\ UNCHANGED notSync

\* one page fetch answered 2xx (lines 96-113)
FetchPageOk ==
    /\ pc = "fetch"
    /\ LET orders == ProviderPage(integrations[cur].ticketco_event_id, sinceDate, page)
       IN  IF Len(orders) = 0
           THEN /\ pc' = "store"
                /\ UNCHANGED <<allOrders, page>>
           ELSE /\ allOrders' = allOrders \o orders
                /\ page' = page + 1
                /\ UNCHANGED pc
    /\ fetched' = fetched + 1
    /\ UNCHANGED <<integrations, ticket_sales, sync_log, now, provider, nextOrderId,
                   festivalId, queue, cur, sinceDate, salesRows,
                   results, response, runs, runStartSales, invStartLen>>
    /\ UNCHANGED midRun
    /\ UNCHANGED notSync

\* one page fetch answered non-2xx (lines 100-102)
FetchPageHttpError ==
    /\ pc = "fetch"
    /\ \E status \in HttpErrors : Catch(ApiErrorMessage(status))

\* one page fetch answered 2xx with a body that is not JSON (line 104)
FetchPageMalformed ==
    /\ pc = "fetch"
    /\ Catch(JsonErrorMessage)

\* transform and batched upsert (lines 115-149)
StoreSales ==
    /\ pc = "store"
    /\ LET rows == SalesRows(cur, allOrders, now)
       IN  /\ salesRows' = rows
           /\ ticket_sales' = IF Len(rows) > 0 THEN UpsertInBatches(ticket_sales, rows, 0)
                              ELSE ticket_sales
    /\ pc' = "logok"
    /\ UNCHANGED <<integrations, sync_log, now, provider, nextOrderId,
                   festivalId, queue, cur, sinceDate, page, allOrders,
                   results, response, runs, runStartSales, invStartLen, fetched>>
    /\ UNCHANGED midRun
    /\ UNCHANGED notSync

\* transform and batched upsert, the storage rejecting the batch: upsert resolves
\* to {data: null, error}, which the function does not look at (lines 141-149)
StoreSalesRejected ==
    /\ pc = "store"
    /\ LET rows == SalesRows(cur, allOrders, now)
       IN  /\ Len(rows) > 0
           /\ salesRows' = rows
    /\ pc' = "logok"
    /\ UNCHANGED <<integrations, ticket_sales, sync_log, now, provider, nextOrderId,
                   festivalId, queue, cur, sinceDate, page, allOrders,
                   results, response, runs, runStartSales, invStartLen, fetched>>
    /\ UNCHANGED midRun
    /\ UNCHANGED notSync

\* a success entry that counts orders where it should count rows
LogSuccessCountsOrders ==
    /\ pc = "logok"
    /\ sync_log' = Append(sync_log, SuccessLog(cur, Len(allOrders), now))
    /\ results' = Append(results, [festival_id |-> cur, records_synced |-> Len(allOrders),
                                   status |-> "success"])
    /\ pc' = "loop"
    /\ LeaveIteration
    /\ UNCHANGED <<integrations, ticket_sales, now, provider, nextOrderId,
                   festivalId, queue, response, runs, invStartLen, fetched>>
    /\ UNCHANGED midRun
    /\ UNCHANGED notSync

\* success log entry and success result (lines 151-162)
LogSuccess ==
    /\ pc = "logok"
    /\ sync_log' = Append(sync_log, SuccessLog(cur, Len(salesRows), now))
    /\ results' = Append(results, [festival_id |-> cur, records_synced |-> Len(salesRows),
                                   status |-> "success"])
    /\ pc' = "loop"
    /\ LeaveIteration
    /\ UNCHANGED <<integrations, ticket_sales, now, provider, nextOrderId,
                   festivalId, queue, response, runs, invStartLen, fetched>>
    /\ UNCHANGED midRun
    /\ UNCHANGED notSync

\* the loop is over: respond with the results (lines 180-182)
Respond ==
    /\ pc = "loop"
    /\ queue = <<>>
    /\ response' = [results |-> results]
    /\ pc' = "idle"
    /\ festivalId' = NULL
    /\ results' = <<>>
    /\ UNCHANGED <<integrations, ticket_sales, sync_log, now, provider, nextOrderId,
                   queue, cur, sinceDate, page, allOrders, salesRows,
                   runs, runStartSales, invStartLen, fetched>>
    /\ UNCHANGED midRun
    /\ UNCHANGED notSync

Next ==
    \/ Tick
    \/ ProviderCreateOrder
    \/ Invoke
    \/ TenantStart
    \/ FetchPageOk
    \/ FetchPageHttpError
    \/ FetchPageMalformed
    \/ StoreSales
    \/ StoreSalesRejected
    \/ LogSuccess
    \/ Respond


\* ======================================================================
\* CSV export (src/hooks/useTicketSales.ts, src/lib/export-csv.ts)
\* ======================================================================
\* the characters /^[=+\-@\t\r]/ tests for
FormulaChars == {"=", "+", "-", "@", "\t", "\r"}

\* formula characters, the characters the quoting rule looks for, the guard's own
\* prefix, and a plain letter
Chars == FormulaChars \cup {",", "\"", "\n", "'", "a"}

Texts == UNION {[1..k -> Chars] : k \in 0..MaxLen}

\* a ?? b over an optional value: <<>> is null, <<v>> is v
Coalesce(opt, default) == IF opt = <<>> THEN default ELSE opt[1]

\* val.replace(/"/g, '""')
RECURSIVE replaceQuotes(_)
replaceQuotes(str) ==
    IF str = <<>> THEN <<>>
    ELSE (IF Head(str) = "\"" THEN <<"\"", "\"">> ELSE <<Head(str)>>)
         \o replaceQuotes(Tail(str))

needsQuoting(str) ==
    includes(str, <<",">>) \/ includes(str, <<"\"">>) \/ includes(str, <<"\n">>)

\* an escapeCsv that quotes first and tests for formula characters afterwards
escapeCsvQuotesFirst(val) ==
    LET quoted == IF needsQuoting(val)
                  THEN <<"\"">> \o replaceQuotes(val) \o <<"\"">>
                  ELSE val
    IN  IF quoted # <<>> /\ Head(quoted) \in FormulaChars
        THEN <<"'">> \o quoted
        ELSE quoted

\* escapeCsv of src/hooks/useTicketSales.ts
escapeCsv(val) ==
    LET safe == IF val # <<>> /\ Head(val) \in FormulaChars
                THEN <<"'">> \o val
                ELSE val
    IN  IF needsQuoting(safe)
        THEN <<"\"">> \o replaceQuotes(safe) \o <<"\"">>
        ELSE safe

\* escapeCsv of src/lib/export-csv.ts
lib_escapeCsv(val) ==
    IF needsQuoting(val)
    THEN <<"\"">> \o replaceQuotes(val) \o <<"\"">>
    ELSE val

\* the records an exporter is handed, as far as their free-text fields go
Sale == [ticket_type |-> csvText]
IncomeText == [category |-> csvText,
               description |-> IF csvNulls THEN <<>> ELSE <<csvText>>,
               source |-> IF csvNulls THEN <<>> ELSE <<csvText>>]
ExpenseText == [category |-> csvText,
                description |-> IF csvNulls THEN <<>> ELSE <<csvText>>,
                supplier |-> IF csvNulls THEN <<>> ELSE <<csvText>>]

\* a written cell, with the field and the value it was written from
Cell(field, value, cell) == [field |-> field, value |-> value, cell |-> cell]

\* Amounts are in thousandths of a krone, so that toFixed has something to round;
\* none of them ends in 5, where the rounding of a binary fraction is not the
\* decimal one.
Amounts == {<<>>, <<0>>, <<100000>>, <<12344>>, <<999>>}

\* n.toFixed(2): the amount rounded to hundredths, as integer part, point, two digits
toFixed2(n) ==
    LET hundredths == (n + 5) \div 10
    IN  <<hundredths \div 100, ".", (hundredths \div 10) % 10, hundredths % 10>>

\* formatNumber: '' for null, n.toFixed(2) otherwise
formatNumber(n) == IF n = <<>> THEN <<>> ELSE toFixed2(n[1])

\* the sale, income and expense record as to numbers: one nullable amount stored in
\* the price (amount) columns and in the VAT amount column
SaleNumbers == [quantity |-> 2, price_ex_vat |-> csvAmount, vat_rate |-> <<25>>,
                vat_amount |-> csvAmount, price_inc_vat |-> csvAmount]
LedgerNumbers == [amount_ex_vat |-> csvAmount, vat_rate |-> <<25>>,
                  vat_amount |-> csvAmount]

\* the numeric cells of a row of either exportSalesCsv
SalesNumberCells ==
    <<Cell("price_ex_vat", SaleNumbers.price_ex_vat, formatNumber(SaleNumbers.price_ex_vat)),
      Cell("vat_amount", SaleNumbers.vat_amount, formatNumber(SaleNumbers.vat_amount)),
      Cell("price_inc_vat", SaleNumbers.price_inc_vat,
           formatNumber(SaleNumbers.price_inc_vat))>>

\* the numeric cells of an income or expense row of exportEconomyCsv
EconomyNumberCells ==
    LET exVat == Coalesce(LedgerNumbers.amount_ex_vat, 0)
        vatRate == Coalesce(LedgerNumbers.vat_rate, 0)
        vatAmount == Coalesce(LedgerNumbers.vat_amount, (exVat * vatRate) \div 100)
    IN  <<Cell("amount_ex_vat", LedgerNumbers.amount_ex_vat, formatNumber(<<exVat>>)),
          Cell("vat_amount", LedgerNumbers.vat_amount, formatNumber(<<vatAmount>>)),
          Cell("amount_inc_vat", <<exVat + vatAmount>>, formatNumber(<<exVat + vatAmount>>))>>

\* the numeric cells of a sale's row of exportAccountingTicketsCsv
AccountingNumberCells ==
    LET exVat == Coalesce(SaleNumbers.price_ex_vat, 0)
        vatAmt == Coalesce(SaleNumbers.vat_amount, 0)
        incVat == Coalesce(SaleNumbers.price_inc_vat, 0)
    IN  <<Cell("price_ex_vat", SaleNumbers.price_ex_vat, formatNumber(<<exVat>>)),
          Cell("sum_ex_vat", <<exVat * SaleNumbers.quantity>>,
               formatNumber(<<exVat * SaleNumbers.quantity>>)),
          Cell("vat_amount", SaleNumbers.vat_amount,
               formatNumber(<<vatAmt * SaleNumbers.quantity>>)),
          Cell("price_inc_vat", SaleNumbers.price_inc_vat,
               formatNumber(<<incVat * SaleNumbers.quantity>>))>>


CsvInit ==
    /\ csvText \in Texts
    /\ csvNulls \in BOOLEAN
    /\ csvExporter = "none"
    /\ csvRows = <<>>
    /\ csvAmount \in Amounts
    /\ csvNumbers = <<>>

CsvAtRest ==
    /\ csvText = <<>>
    /\ csvNulls = FALSE
    /\ csvExporter = "none"
    /\ csvRows = <<>>
    /\ csvAmount = <<>>
    /\ csvNumbers = <<>>

\* exportSalesCsv of src/hooks/useTicketSales.ts: Billettype column
exportSalesCsv ==
    /\ csvExporter' = "exportSalesCsv"
    /\ csvRows' = << <<Cell("ticket_type", Sale.ticket_type, escapeCsv(Sale.ticket_type))>> >>
    /\ csvNumbers' = SalesNumberCells
    /\ UNCHANGED <<csvText, csvNulls, csvAmount>>
    /\ UNCHANGED notCsv

\* exportSalesCsv of src/lib/export-csv.ts: Billettype column
lib_exportSalesCsv ==
    /\ csvExporter' = "lib_exportSalesCsv"
    /\ csvRows' = << <<Cell("ticket_type", Sale.ticket_type, lib_escapeCsv(Sale.ticket_type))>> >>
    /\ csvNumbers' = SalesNumberCells
    /\ UNCHANGED <<csvText, csvNulls, csvAmount>>
    /\ UNCHANGED notCsv

\* exportEconomyCsv: Kategori, Skildring and Kjelde/Leverandor columns of an income
\* row and of an expense row
exportEconomyCsv ==
    /\ csvExporter' = "exportEconomyCsv"
    /\ csvRows' =
         << <<Cell("category", IncomeText.category, escapeCsv(IncomeText.category)),
              Cell("description", Coalesce(IncomeText.description, <<>>),
                   escapeCsv(Coalesce(IncomeText.description, <<>>))),
              Cell("source", Coalesce(IncomeText.source, <<>>),
                   escapeCsv(Coalesce(IncomeText.source, <<>>)))>>,
            <<Cell("category", ExpenseText.category, escapeCsv(ExpenseText.category)),
              Cell("description", Coalesce(ExpenseText.description, <<>>),
                   escapeCsv(Coalesce(ExpenseText.description, <<>>))),
              Cell("supplier", Coalesce(ExpenseText.supplier, <<>>),
                   escapeCsv(Coalesce(ExpenseText.supplier, <<>>)))>> >>
    /\ csvNumbers' = EconomyNumberCells \o EconomyNumberCells
    /\ UNCHANGED <<csvText, csvNulls, csvAmount>>
    /\ UNCHANGED notCsv

\* exportAccountingTicketsCsv: Billettype column
exportAccountingTicketsCsv ==
    /\ csvExporter' = "exportAccountingTicketsCsv"
    /\ csvRows' = << <<Cell("ticket_type", Sale.ticket_type, escapeCsv(Sale.ticket_type))>> >>
    /\ csvNumbers' = AccountingNumberCells
    /\ UNCHANGED <<csvText, csvNulls, csvAmount>>
    /\ UNCHANGED notCsv

CsvNext ==
    \/ exportSalesCsv
    \/ lib_exportSalesCsv
    \/ exportEconomyCsv
    \/ exportAccountingTicketsCsv

\* ======================================================================
\* Ledger aggregation: VAT amounts (src/hooks/useTicketSales.ts,
\* src/lib/sales-utils.ts, report-pdf, EconomyPage)
\* ======================================================================
\* Amounts are whole kroner and rates whole percent (the code keeps the rate as a
\* fraction: 25 here is 0.25 there); the amounts and rates below multiply to whole
\* kroner, so no rounding enters.
SaleRecords ==
    [kind : {"sale"}, category : {"ticket", "fb"}, quantity : {1, 2},
     price_ex_vat : {<<100>>}, vat_rate : {<<12>>, <<25>>},
     vat_amount : {<<>>, <<30>>}, price_inc_vat : {<<130>>}]

IncomeRecords ==
    [kind : {"income"}, is_budget : BOOLEAN, amount_ex_vat : {<<100>>},
     vat_rate : {<<12>>, <<25>>}, vat_amount : {<<>>, <<30>>}]

ExpenseRecords ==
    [kind : {"expense"}, is_budget : BOOLEAN, amount_ex_vat : {<<100>>},
     vat_rate : {<<12>>, <<25>>}, vat_amount : {<<>>, <<30>>}]

LedgerRecords == SaleRecords \cup IncomeRecords \cup ExpenseRecords

\* a fully populated sale row, as the sync job stores it
SaleRow(quantity, price_ex_vat, vat_rate, vat_amount, price_inc_vat) ==
    [kind |-> "sale", category |-> "ticket", quantity |-> quantity,
     price_ex_vat |-> price_ex_vat, vat_rate |-> vat_rate,
     vat_amount |-> vat_amount, price_inc_vat |-> price_inc_vat]

\* sale rows at several rates, one of them without a rate and one at rate 0
BucketSales ==
    {SaleRow(2, <<80>>, <<25>>, <<20>>, <<100>>),
     SaleRow(1, <<100>>, <<25>>, <<25>>, <<125>>),
     SaleRow(2, <<100>>, <<12>>, <<12>>, <<112>>),
     SaleRow(1, <<100>>, <<0>>, <<0>>, <<100>>),
     SaleRow(1, <<100>>, <<>>, <<>>, <<100>>)}

\* a ledger of one actual income and one actual expense record
ExampleLedgers ==
    {<<[kind |-> "income", is_budget |-> FALSE, amount_ex_vat |-> <<1000>>,
        vat_rate |-> <<25>>, vat_amount |-> <<250>>],
       [kind |-> "expense", is_budget |-> FALSE, amount_ex_vat |-> <<600>>,
        vat_rate |-> <<25>>, vat_amount |-> <<>>]>>}

OfKind(k) == SelectSeq(records, LAMBDA r : r.kind = k)

Actual(rs) == SelectSeq(rs, LAMBDA r : ~r.is_budget)

\* amount * rate with the rate in percent
Times(amount, rate) == (amount * rate) \div 100

\* i.vat_amount ?? (i.amount_ex_vat ?? 0) * (i.vat_rate ?? 0)
vatAmountOrFallback(r) ==
    Coalesce(r.vat_amount, Times(Coalesce(r.amount_ex_vat, 0), Coalesce(r.vat_rate, 0)))

\* (s.vat_amount ?? 0) * s.quantity
saleVat(s) == Coalesce(s.vat_amount, 0) * s.quantity

RECURSIVE SumOver(_, _)
SumOver(rs, field) ==
    IF rs = <<>> THEN 0
    ELSE (CASE field = "exVat" -> Coalesce(Head(rs).amount_ex_vat, 0)
            [] field = "vat" -> vatAmountOrFallback(Head(rs))
            [] field = "incVat" -> Coalesce(Head(rs).amount_ex_vat, 0)
                                     + vatAmountOrFallback(Head(rs))
            [] field = "saleExVat" -> Coalesce(Head(rs).price_ex_vat, 0) * Head(rs).quantity
            [] field = "saleVat" -> saleVat(Head(rs))
            [] field = "saleIncVat" -> Coalesce(Head(rs).price_inc_vat, 0) * Head(rs).quantity
            [] field = "quantity" -> Head(rs).quantity)
         + SumOver(Tail(rs), field)

RECURSIVE SortedAsc(_)
SortedAsc(S) ==
    IF S = {} THEN <<>>
    ELSE LET low == CHOOSE x \in S : \A y \in S : x <= y
         IN  <<low>> \o SortedAsc(S \ {low})

\* the keys of a Map, sorted descending (sort((a, b) => b.rate - a.rate))
RECURSIVE SortedDesc(_)
SortedDesc(S) ==
    IF S = {} THEN <<>>
    ELSE LET top == CHOOSE x \in S : \A y \in S : y <= x
         IN  <<top>> \o SortedDesc(S \ {top})

\* rate ? `${(rate * 100).toFixed(0)}%` : '0%'
percentLabel(rate) == <<rate, "%">>

\* groupSalesByVat: one bucket per rate, highest rate first
groupSalesByVat(sales) ==
    LET rates == {Coalesce(sales[i].vat_rate, 0) : i \in 1..Len(sales)}
        order == SortedDesc(rates)
        at(rate) == SelectSeq(sales, LAMBDA s : Coalesce(s.vat_rate, 0) = rate)
    IN  [b \in 1..Len(order) |->
            [rate |-> order[b],
             label |-> percentLabel(order[b]),
             exVat |-> SumOver(at(order[b]), "saleExVat"),
             vatAmount |-> SumOver(at(order[b]), "saleVat"),
             incVat |-> SumOver(at(order[b]), "saleIncVat"),
             count |-> SumOver(at(order[b]), "quantity")]]

\* the per-rate Map of exportAccountingVatCsv and of the VAT summary
byRate(rs) ==
    LET rates == {Coalesce(rs[i].vat_rate, 0) : i \in 1..Len(rs)}
        order == SortedDesc(rates)
        at(rate) == SelectSeq(rs, LAMBDA r : Coalesce(r.vat_rate, 0) = rate)
    IN  [b \in 1..Len(order) |->
            [rate |-> order[b],
             exVat |-> SumOver(at(order[b]), "exVat"),
             vat |-> SumOver(at(order[b]), "vat")]]

\* an amount line of an aggregator's output
Line(source, label, exVat, vat) ==
    [source |-> source, label |-> label, exVat |-> exVat, vat |-> vat]

\* a line that carries an amount including VAT only
TotalLine(source, label, incVat) ==
    [source |-> source, label |-> label, incVat |-> incVat]

\* a row of the summary export: ex-VAT, VAT and the two added up
SummaryLine(source, label, exVat, vat) ==
    [source |-> source, label |-> label, exVat |-> exVat, vat |-> vat,
     incVat |-> exVat + vat]

ResultatSwapped(inc, exp) == exp - inc

\* the RESULTAT cell of a column: income less expenses
Resultat(inc, exp) == inc - exp

NoOutput == [path |-> "none", lines |-> <<>>]

VatInit ==
    /\ records \in UNION {[1..k -> LedgerRecords] : k \in 0..MaxRecords}
                   \cup UNION {[1..k -> BucketSales] : k \in 0..MaxSales}
                   \cup ExampleLedgers
    /\ vatOut = NoOutput

VatAtRest ==
    /\ records = <<>>
    /\ vatOut = NoOutput

\* ReportsPage: vatBuckets = groupSalesByVat(filteredSales)
GroupSalesByVat ==
    /\ LET buckets == groupSalesByVat(OfKind("sale"))
       IN  vatOut' = [path |-> "groupSalesByVat",
                      buckets |-> buckets,
                      lines |-> [b \in 1..Len(buckets) |->
                                    Line("sale", buckets[b].label, buckets[b].exVat,
                                         buckets[b].vatAmount)]]
    /\ UNCHANGED records
    /\ UNCHANGED notVat

\* exportAccountingVatCsv: sales, actual income and actual expenses by rate
exportAccountingVatCsv ==
    /\ LET salesVat == groupSalesByVat(OfKind("sale"))
           incVatMap == byRate(Actual(OfKind("income")))
           expVatMap == byRate(Actual(OfKind("expense")))
       IN  vatOut' = [path |-> "exportAccountingVatCsv",
                      lines |->
                         [b \in 1..Len(salesVat) |->
                             Line("sale", salesVat[b].label, salesVat[b].exVat,
                                  salesVat[b].vatAmount)]
                         \o [b \in 1..Len(incVatMap) |->
                               Line("income", percentLabel(incVatMap[b].rate), incVatMap[b].exVat,
                                    incVatMap[b].vat)]
                         \o [b \in 1..Len(expVatMap) |->
                               Line("expense", percentLabel(expVatMap[b].rate), expVatMap[b].exVat,
                                    expVatMap[b].vat)]]
    /\ UNCHANGED records
    /\ UNCHANGED notVat

\* exportAccountingSummaryCsv: Billettsalg, Mat/drikke, Ovrig inntekt, SUM INNTEKTER,
\* SUM KOSTNADER, RESULTAT
exportAccountingSummaryCsv ==
    /\ LET tickets == SelectSeq(OfKind("sale"), LAMBDA s : s.category # "fb")
           fnb == SelectSeq(OfKind("sale"), LAMBDA s : s.category = "fb")
           actualIncome == Actual(OfKind("income"))
           actualExpenses == Actual(OfKind("expense"))
           ticketExVat == SumOver(tickets, "saleExVat")
           ticketVat == SumOver(tickets, "saleVat")
           fnbExVat == SumOver(fnb, "saleExVat")
           fnbVat == SumOver(fnb, "saleVat")
           otherIncExVat == SumOver(actualIncome, "exVat")
           otherIncVat == SumOver(actualIncome, "vat")
           totalIncExVat == ticketExVat + fnbExVat + otherIncExVat
           totalIncVat == ticketVat + fnbVat + otherIncVat
           expExVat == SumOver(actualExpenses, "exVat")
           expVat == SumOver(actualExpenses, "vat")
       IN  vatOut' = [path |-> "exportAccountingSummaryCsv",
                      lines |->
                         <<SummaryLine("sale", "Billettsalg", ticketExVat, ticketVat),
                           SummaryLine("sale", "Mat/drikke", fnbExVat, fnbVat),
                           SummaryLine("income", "Ovrig inntekt", otherIncExVat, otherIncVat),
                           SummaryLine("total", "SUM INNTEKTER", totalIncExVat, totalIncVat),
                           SummaryLine("expense", "SUM KOSTNADER", expExVat, expVat),
                           [source |-> "result", label |-> "RESULTAT",
                            exVat |-> Resultat(totalIncExVat, expExVat),
                            vat |-> Resultat(totalIncVat, expVat),
                            incVat |-> Resultat(totalIncExVat + totalIncVat,
                                                expExVat + expVat)]>>]
    /\ UNCHANGED records
    /\ UNCHANGED notVat

\* exportEconomyCsv: one row per income and per expense record, budget rows included
ExportEconomyVat ==
    /\ LET income == OfKind("income")
           expenses == OfKind("expense")
       IN  vatOut' = [path |-> "exportEconomyCsv",
                      lines |->
                         [i \in 1..Len(income) |->
                             Line("income", "Inntekt", Coalesce(income[i].amount_ex_vat, 0),
                                  vatAmountOrFallback(income[i]))]
                         \o [i \in 1..Len(expenses) |->
                               Line("expense", "Kostnad",
                                    Coalesce(expenses[i].amount_ex_vat, 0),
                                    vatAmountOrFallback(expenses[i]))]]
    /\ UNCHANGED records
    /\ UNCHANGED notVat

\* exportAccountingTicketsCsv: the TOTALT row
ExportAccountingTicketsTotals ==
    /\ LET sorted == OfKind("sale")
       IN  vatOut' = [path |-> "exportAccountingTicketsCsv",
                      lines |-> <<Line("sale", "TOTALT", SumOver(sorted, "saleExVat"),
                                       SumOver(sorted, "saleVat"))>>]
    /\ UNCHANGED records
    /\ UNCHANGED notVat

\* totalStats of src/lib/sales-utils.ts: totalVat
totalStats ==
    /\ LET sales == OfKind("sale")
       IN  vatOut' = [path |-> "totalStats",
                      lines |-> <<Line("sale", "totalVat", SumOver(sales, "saleExVat"),
                                       SumOver(sales, "saleVat"))>>]
    /\ UNCHANGED records
    /\ UNCHANGED notVat

\* generateAnnualReportPdf: totalInc and totalExp, sums of ex-VAT plus VAT amounts,
\* and the RESULTAT row
generateAnnualReportPdf ==
    /\ LET actualIncome == Actual(OfKind("income"))
           actualExpenses == Actual(OfKind("expense"))
           totalInc == SumOver(actualIncome, "incVat")
           totalExp == SumOver(actualExpenses, "incVat")
       IN  vatOut' = [path |-> "generateAnnualReportPdf",
                      lines |->
                         <<TotalLine("income", "Sum inntekter", totalInc),
                           TotalLine("expense", "Sum kostnader", totalExp),
                           TotalLine("result", "RESULTAT", Resultat(totalInc, totalExp))>>]
    /\ UNCHANGED records
    /\ UNCHANGED notVat

VatNext ==
    \/ GroupSalesByVat
    \/ exportAccountingVatCsv
    \/ exportAccountingSummaryCsv
    \/ ExportEconomyVat
    \/ ExportAccountingTicketsTotals
    \/ totalStats
    \/ generateAnnualReportPdf

\* ======================================================================
\* Row-level policies (supabase/migrations), the policy set in force after the
\* three migrations: initial schema, policy-gap fixes, helper-function rewrite
\* ======================================================================
Users == {"u1", "u2"}

Roles == {"admin", "board", "crew", "sponsor", "accountant"}

\* user_profiles.email: every user signs in with an address of their own
email(u) == u

\* sponsors: one sponsor per festival, its contact being the user first placed there
sponsors ==
    {[id |-> "s1", festival_id |-> "f1", contact_email |-> email("u1")],
     [id |-> "s2", festival_id |-> "f2", contact_email |-> email("u2")]}

\* tables whose rows carry nothing but their festival as far as the policies go
PlainTables == {"ticket_sales", "income", "expenses", "festival_integrations",
                "ticketco_sync_logs", "reports"}

\* the rows of a table: one row per festival in the plain tables
Rows(table) ==
    CASE table = "sponsors" -> sponsors
      [] table = "sponsor_deliverables" -> sponsor_deliverables
      [] OTHER -> {[festival_id |-> f] : f \in Festivals}

Tables == PlainTables \cup {"sponsors", "sponsor_deliverables"}

current_user_festival_id(u) == user_profiles[u].festival_id

current_user_role(u) == user_profiles[u].role

\* "Festival members can read <table>"
FestivalMembersCanRead(u, row) == row.festival_id = user_profiles[u].festival_id

\* "Admins can manage <table>" and "Admins can read festival_integrations"
AdminsCanManage(u, row) ==
    /\ row.festival_id = current_user_festival_id(u)
    /\ current_user_role(u) = "admin"

\* "Non-sponsor members can read sponsors / deliverables"
NonSponsorMembersCanRead(u, row) ==
    /\ row.festival_id = current_user_festival_id(u)
    /\ current_user_role(u) \in {"admin", "board", "crew", "accountant"}

\* "Sponsors can read own sponsor record"
SponsorsCanReadOwnSponsorRecord(u, row) ==
    /\ row.festival_id = current_user_festival_id(u)
    /\ current_user_role(u) = "sponsor"
    /\ row.contact_email = email(u)

\* the permissive SELECT policies of sponsors, OR-ed
CanSelectSponsor(u, row) ==
    \/ NonSponsorMembersCanRead(u, row)
    \/ SponsorsCanReadOwnSponsorRecord(u, row)
    \/ AdminsCanManage(u, row)

\* "Sponsors can read own deliverables": the subquery on sponsors runs under the
\* caller's own policies
SponsorsCanReadOwnDeliverables(u, row) ==
    row.sponsor_id \in {s.id : s \in {t \in sponsors :
                                        /\ CanSelectSponsor(u, t)
                                        /\ t.festival_id = current_user_festival_id(u)
                                        /\ t.contact_email = email(u)}}

\* the permissive policies that apply to SELECT on a table, OR-ed
CanSelect(u, table, row) ==
    CASE table \in {"ticket_sales", "ticketco_sync_logs"} -> FestivalMembersCanRead(u, row)
      [] table \in {"income", "expenses", "reports"} ->
            FestivalMembersCanRead(u, row) \/ AdminsCanManage(u, row)
      [] table = "festival_integrations" -> AdminsCanManage(u, row)
      [] table = "sponsors" -> CanSelectSponsor(u, row)
      [] table = "sponsor_deliverables" ->
            \/ NonSponsorMembersCanRead(u, row)
            \/ SponsorsCanReadOwnDeliverables(u, row)
            \/ AdminsCanManage(u, row)

NoRead == [user |-> "none"]

RlsInit ==
    /\ user_profiles \in {p \in [Users -> [festival_id : Festivals, role : Roles]] :
                            /\ p["u1"].festival_id = "f1"
                            /\ p["u2"].festival_id = "f2"}
    /\ sponsor_deliverables = {}
    /\ lastRead = NoRead
    /\ placedIn = [u \in Users |-> user_profiles[u].festival_id]

RlsAtRest ==
    /\ user_profiles = [u \in Users |->
                          [festival_id |-> IF u = "u1" THEN "f1" ELSE "f2", role |-> "crew"]]
    /\ sponsor_deliverables = {}
    /\ lastRead = NoRead
    /\ placedIn = [u \in Users |-> IF u = "u1" THEN "f1" ELSE "f2"]

\* SELECT on a table: a row the policies let through reaches the user
Select ==
    /\ \E u \in Users, table \in Tables :
         \E row \in Rows(table) :
            /\ CanSelect(u, table, row)
            /\ lastRead' = [user |-> u, table |-> table,
                            festival_id |-> row.festival_id,
                            profile_festival_id |-> user_profiles[u].festival_id,
                            placed_in |-> placedIn[u]]
    /\ UNCHANGED <<user_profiles, sponsor_deliverables, placedIn>>
    /\ UNCHANGED notRls

\* UPDATE user_profiles under "Users can update own profile": USING (id = auth.uid())
\* with no WITH CHECK, so the new row is checked against id = auth.uid() only
UpdateOwnProfile ==
    /\ \E u \in Users, f \in Festivals, r \in Roles :
         user_profiles' = [user_profiles EXCEPT ![u] = [festival_id |-> f, role |-> r]]
    /\ UNCHANGED <<sponsor_deliverables, lastRead, placedIn>>
    /\ UNCHANGED notRls

\* UPDATE of another user's profile under "Admins can manage user profiles": old and
\* new row are in the administrator's festival
AdminUpdateProfile ==
    /\ \E a \in Users, u \in Users, r \in Roles :
         /\ u # a
         /\ AdminsCanManage(a, user_profiles[u])
         /\ user_profiles' = [user_profiles EXCEPT ![u].role = r]
    /\ UNCHANGED <<sponsor_deliverables, lastRead, placedIn>>
    /\ UNCHANGED notRls

\* invite-user for an address that has an account: the service role upserts the
\* profile with the calling administrator's festival
InviteExistingUser ==
    /\ \E a \in Users, u \in Users, r \in Roles :
         /\ u # a
         /\ current_user_role(a) = "admin"
         /\ user_profiles' = [user_profiles EXCEPT
                                ![u] = [festival_id |-> current_user_festival_id(a),
                                        role |-> r]]
         /\ placedIn' = [placedIn EXCEPT ![u] = current_user_festival_id(a)]
    /\ UNCHANGED <<sponsor_deliverables, lastRead>>
    /\ UNCHANGED notRls

\* INSERT under "Admins can manage sponsor_deliverables": the new row carries the
\* administrator's festival; sponsor_id is checked by its foreign key only
AdminInsertDeliverable ==
    /\ \E a \in Users, s \in sponsors :
         LET row == [festival_id |-> current_user_festival_id(a), sponsor_id |-> s.id]
         IN  /\ AdminsCanManage(a, row)
             /\ row \notin sponsor_deliverables
             /\ Cardinality(sponsor_deliverables) < MaxDeliverables
             /\ sponsor_deliverables' = sponsor_deliverables \cup {row}
    /\ UNCHANGED <<user_profiles, lastRead, placedIn>>
    /\ UNCHANGED notRls

\* DELETE under "Admins can manage sponsor_deliverables"
AdminDeleteDeliverable ==
    /\ \E a \in Users, row \in sponsor_deliverables :
         /\ AdminsCanManage(a, row)
         /\ sponsor_deliverables' = sponsor_deliverables \ {row}
    /\ UNCHANGED <<user_profiles, lastRead, placedIn>>
    /\ UNCHANGED notRls

RlsNext ==
    \/ Select
    \/ UpdateOwnProfile
    \/ AdminUpdateProfile
    \/ InviteExistingUser
    \/ AdminInsertDeliverable
    \/ AdminDeleteDeliverable

\* ======================================================================
\* Line classification (supabase/functions/ticketco-sync/index.ts, the row mapping)
\* ======================================================================
CategoryChars == {"m", "a", "t", "M", "A", "T"}

\* category texts: every short text over the letters of "mat" in either case, and
\* some whole category names
CategoryTexts ==
    UNION {[1..k -> CategoryChars] : k \in 0..MaxCategoryLen}
    \cup {<<"M", "a", "t", "/", "d", "r", "i", "k", "k", "e">>,
          <<"F", "O", "O", "D">>,
          <<"f", "o", "o">>,
          <<"D", "r", "i", "k", "k", "e">>,
          <<"d", "r", "i", "k", "k">>,
          <<"B", "e", "v", "e", "r", "a", "g", "e", "s">>,
          <<"B", "i", "l", "l", "e", "t", "t">>,
          <<"F", "o", "r", "m", "a", "t">>}

ClsInit ==
    /\ lineCategory \in {<<>>} \cup {<<text>> : text \in CategoryTexts}
    /\ classified = "none"

ClsAtRest ==
    /\ lineCategory = <<>>
    /\ classified = "none"

\* the row mapping applied to a line of that category
Classify ==
    /\ LET order == [id |-> 1, source |-> "web", created_at |-> Epoch]
           line == [LineDagspass EXCEPT !.category = lineCategory]
       IN  classified' = SalesRow("f1", order, line, StartTime).category
    /\ UNCHANGED lineCategory
    /\ UNCHANGED notCls

ClsNext == Classify

\* ======================================================================
\* Sales summaries (src/lib/sales-utils.ts, SalesPage)
\* ======================================================================
\* A date is the text YYYY-MM-DD in its five parts, the numbers zero-padded in the
\* text; a timestamp is a date, "T" and the hour.
Date(y, m, d) == <<y, "-", m, "-", d>>

Timestamp(date, hour) == date \o <<"T", hour>>

Jun30 == Date(2026, 6, 30)
Jul01 == Date(2026, 7, 1)
Jul02 == Date(2026, 7, 2)

\* sold_at.slice(0, 10): the ten characters of the date
slice10(sold_at) == SubSeq(sold_at, 1, 5)

\* a sale at 100 including 20 VAT; pairs were sold at the door, single day passes
\* have no channel recorded, the rest were sold on the web
UtilSale(sold_at, ticket_type, quantity) ==
    [sold_at |-> sold_at, ticket_type |-> ticket_type, quantity |-> quantity,
     price_inc_vat |-> <<100>>, vat_amount |-> <<20>>,
     sale_channel |-> IF quantity = 2 THEN <<"pos">>
                      ELSE IF ticket_type = "Dagspass" THEN <<>> ELSE <<"web">>]

UtilSales ==
    {UtilSale(<<Timestamp(Jul01, 10)>>, "Dagspass", 1),
     UtilSale(<<Timestamp(Jul01, 22)>>, "Festivalpass", 2),
     UtilSale(<<Timestamp(Jul02, 10)>>, "Dagspass", 2),
     UtilSale(<<Timestamp(Jul02, 10)>>, "Festivalpass", 1),
     UtilSale(<<Timestamp(Jun30, 22)>>, "Festivalpass", 1),
     UtilSale(<<>>, "Dagspass", 1)}

\* a.localeCompare(b) on two dates: the parts are of fixed width, so the texts
\* compare as year, month and day do
localeCompareReversed(a, b) ==
    CASE a = b -> 0
      [] a[1] # b[1] -> IF a[1] < b[1] THEN 1 ELSE -1
      [] a[3] # b[3] -> IF a[3] < b[3] THEN 1 ELSE -1
      [] OTHER -> IF a[5] < b[5] THEN 1 ELSE -1

localeCompare(a, b) ==
    CASE a = b -> 0
      [] a[1] # b[1] -> IF a[1] < b[1] THEN -1 ELSE 1
      [] a[3] # b[3] -> IF a[3] < b[3] THEN -1 ELSE 1
      [] OTHER -> IF a[5] < b[5] THEN -1 ELSE 1

\* Array.prototype.sort with a comparator: stable
RECURSIVE InsertBy(_, _, _)
InsertBy(cmp(_, _), x, sorted) ==
    IF sorted = <<>> THEN <<x>>
    ELSE IF cmp(Head(sorted), x) <= 0
         THEN <<Head(sorted)>> \o InsertBy(cmp, x, Tail(sorted))
         ELSE <<x>> \o sorted

RECURSIVE StableSort(_, _)
StableSort(cmp(_, _), arr) ==
    IF arr = <<>> THEN <<>>
    ELSE InsertBy(cmp, arr[Len(arr)], StableSort(cmp, SubSeq(arr, 1, Len(arr) - 1)))

\* map.get(key) ?? {key, tickets: 0, revenue: 0}, the two additions, map.set: the
\* entries of the Map in insertion order
MapAdd(map, key, sale) ==
    IF \E i \in 1..Len(map) : map[i].key = key
    THEN LET i == CHOOSE j \in 1..Len(map) : map[j].key = key
         IN  [map EXCEPT ![i].tickets = @ + sale.quantity,
                         ![i].revenue = @ + Coalesce(sale.price_inc_vat, 0) * sale.quantity]
    ELSE Append(map, [key |-> key, tickets |-> sale.quantity,
                      revenue |-> Coalesce(sale.price_inc_vat, 0) * sale.quantity])

RECURSIVE DateMap(_, _)
DateMap(sales, map) ==
    IF sales = <<>> THEN map
    ELSE IF Head(sales).sold_at = <<>> THEN DateMap(Tail(sales), map)
         ELSE DateMap(Tail(sales), MapAdd(map, slice10(Head(sales).sold_at[1]), Head(sales)))

RECURSIVE TypeMap(_, _)
TypeMap(sales, map) ==
    IF sales = <<>> THEN map
    ELSE TypeMap(Tail(sales), MapAdd(map, Head(sales).ticket_type, Head(sales)))

groupByDate(sales) ==
    LET values == DateMap(sales, <<>>)
        cmp(a, b) == localeCompare(a.date, b.date)
    IN  StableSort(cmp, [i \in 1..Len(values) |->
                            [date |-> values[i].key, tickets |-> values[i].tickets,
                             revenue |-> values[i].revenue]])

ticketsAscending(a, b) == a.tickets - b.tickets

\* (a, b) => b.tickets - a.tickets
ticketsDescending(a, b) == b.tickets - a.tickets

groupByType(sales) ==
    LET values == TypeMap(sales, <<>>)
    IN  StableSort(ticketsDescending,
                   [i \in 1..Len(values) |->
                       [type |-> values[i].key, tickets |-> values[i].tickets,
                        revenue |-> values[i].revenue]])

RECURSIVE ChannelMap(_, _)
ChannelMap(sales, map) ==
    IF sales = <<>> THEN map
    ELSE ChannelMap(Tail(sales),
                    MapAdd(map, Coalesce(Head(sales).sale_channel, "web"), Head(sales)))

\* the Map's values, unsorted
groupByChannel(sales) ==
    LET values == ChannelMap(sales, <<>>)
    IN  [i \in 1..Len(values) |->
            [channel |-> values[i].key, tickets |-> values[i].tickets,
             revenue |-> values[i].revenue]]

\* s.sold_at?.startsWith(today), today being the ten characters of a date
startsWith(sold_at, today) == sold_at # <<>> /\ SubSeq(sold_at[1], 1, 5) = today

RECURSIVE totalStatsFrom(_, _, _)
totalStatsFrom(sales, today, acc) ==
    IF sales = <<>> THEN acc
    ELSE LET sale == Head(sales)
         IN  totalStatsFrom(Tail(sales), today,
                 [totalTickets |-> acc.totalTickets + sale.quantity,
                  totalRevenue |-> acc.totalRevenue
                                     + Coalesce(sale.price_inc_vat, 0) * sale.quantity,
                  totalVat |-> acc.totalVat + Coalesce(sale.vat_amount, 0) * sale.quantity,
                  todayTickets |-> acc.todayTickets
                                     + (IF startsWith(sale.sold_at, today)
                                        THEN sale.quantity ELSE 0)])

\* ---- computeForecast --------------------------------------------------
\* Time is counted in half days since the turn of the year.
TicksPerDay == 2

\* new Date('YYYY-MM-DD').getTime(): midnight UTC of the date
getTime(date) ==
    LET daysBefore == CASE date[3] = 6 -> 151 [] date[3] = 7 -> 181
    IN  (daysBefore + date[5]) * TicksPerDay

\* the festival's start_date: null or a date
StartDates == {<<>>, <<Jun30>>, <<Jul01>>, <<Jul02>>}

\* new Date(): the call is made on 1 July, in the morning or in the afternoon
Todays == {getTime(Jul01), getTime(Jul01) + 1}

CeilAsFloor(a, b) == a \div b

\* Math.ceil(a / b) and Math.round(a / b), b > 0
Ceil(a, b) == -((-a) \div b)
Round(a, b) == (2 * a + b) \div (2 * b)

Max(a, b) == IF a > b THEN a ELSE b

RECURSIVE SumTickets(_)
SumTickets(dailySales) ==
    IF dailySales = <<>> THEN 0 ELSE Head(dailySales).tickets + SumTickets(Tail(dailySales))

computeForecastFromOneDay(dailySales, festivalStartDate, today) ==
    IF Len(dailySales) < 1 \/ festivalStartDate = <<>> THEN <<>>
    ELSE << [currentTotal |-> SumTickets(dailySales)] >>

computeForecast(dailySales, festivalStartDate, today) ==
    IF Len(dailySales) < 2 \/ festivalStartDate = <<>> THEN <<>>
    ELSE LET totalDays == Len(dailySales)
             totalTickets == SumTickets(dailySales)
             festivalDate == getTime(festivalStartDate[1])
             daysUntilFestival == Max(0, Ceil(festivalDate - today, TicksPerDay))
         IN  << [currentTotal |-> totalTickets,
                 avgPerDay |-> Round(totalTickets, totalDays),
                 projectedTotal |-> Round(totalTickets * totalDays
                                            + totalTickets * daysUntilFestival, totalDays),
                 daysUntilFestival |-> daysUntilFestival] >>

UtilInit ==
    /\ salesIn \in UNION {[1..k -> UtilSales] : k \in 0..MaxUtilSales}
    /\ utilOut = [fn |-> "none"]

UtilAtRest ==
    /\ salesIn = <<>>
    /\ utilOut = [fn |-> "none"]

\* SalesPage: dailySales = groupByDate(tickets)
GroupByDate ==
    /\ utilOut' = [fn |-> "groupByDate", result |-> groupByDate(salesIn)]
    /\ UNCHANGED salesIn
    /\ UNCHANGED notUtil

\* SalesPage: byType = groupByType(tickets)
GroupByType ==
    /\ utilOut' = [fn |-> "groupByType", result |-> groupByType(salesIn)]
    /\ UNCHANGED salesIn
    /\ UNCHANGED notUtil

\* SalesPage: forecast = computeForecast(dailySales, festival?.start_date ?? null)
ComputeForecast ==
    /\ \E start \in StartDates, today \in Todays :
         utilOut' = [fn |-> "computeForecast", start |-> start, today |-> today,
                     dailySales |-> groupByDate(salesIn),
                     result |-> computeForecast(groupByDate(salesIn), start, today)]
    /\ UNCHANGED salesIn
    /\ UNCHANGED notUtil

\* SalesPage: byChannel = groupByChannel(tickets)
GroupByChannel ==
    /\ utilOut' = [fn |-> "groupByChannel", result |-> groupByChannel(salesIn)]
    /\ UNCHANGED salesIn
    /\ UNCHANGED notUtil

\* SalesPage: stats = totalStats(tickets), called on 1 July
TotalStats ==
    /\ utilOut' = [fn |-> "totalStats",
                   result |-> totalStatsFrom(salesIn, Jul01,
                                  [totalTickets |-> 0, totalRevenue |-> 0,
                                   totalVat |-> 0, todayTickets |-> 0])]
    /\ UNCHANGED salesIn
    /\ UNCHANGED notUtil

UtilNext ==
    \/ GroupByDate
    \/ GroupByType
    \/ GroupByChannel
    \/ TotalStats
    \/ ComputeForecast

\* ======================================================================
\* Budget against actual (EconomyPage and DashboardPage, budgetVsActual)
\* ======================================================================
MaxLedger == 2

\* category is free text on both tables; "other" is used by both kinds
LedgerCategories == {"sponsor", "other"}

\* Income and Expense as the reconciliation reads them; amounts differ by kind
IncomeRows ==
    [category : LedgerCategories, is_budget : BOOLEAN, amount_ex_vat : {<<>>, <<100>>}]

ExpenseRows ==
    [category : LedgerCategories, is_budget : BOOLEAN, amount_ex_vat : {<<>>, <<30>>}]

\* the translations the page looks up; a key without one yields the default value
Translations ==
    [key \in {<<"economy.incomeCategories", "other">>,
              <<"economy.expenseCategories", "other">>} |-> "Annet"]

\* t(key, defaultValue) of react-i18next
translate(key, defaultValue) ==
    IF key \in DOMAIN Translations THEN Translations[key] ELSE defaultValue

KeyWithoutKind(kind, cat) == <<"", "-", cat>>

\* `inc-${cat}` and `exp-${cat}`
CategoryKey(kind, cat) == <<kind, "-", cat>>

\* categories.get(key) ?? {category: label, budget: 0, actual: 0}, the addition to
\* budget or to actual, categories.set: the entries of the Map in insertion order
BudgetMapAdd(map, key, label, rec) ==
    LET amount == Coalesce(rec.amount_ex_vat, 0)
    IN  IF \E i \in 1..Len(map) : map[i].key = key
        THEN LET i == CHOOSE j \in 1..Len(map) : map[j].key = key
             IN  IF rec.is_budget THEN [map EXCEPT ![i].budget = @ + amount]
                                  ELSE [map EXCEPT ![i].actual = @ + amount]
        ELSE Append(map, [key |-> key, category |-> label,
                          budget |-> IF rec.is_budget THEN amount ELSE 0,
                          actual |-> IF rec.is_budget THEN 0 ELSE amount])

\* one loop of EconomyPage over the records of a kind, into the shared Map
RECURSIVE EconomyLoop(_, _, _, _)
EconomyLoop(recs, kind, namespace, map) ==
    IF recs = <<>> THEN map
    ELSE EconomyLoop(Tail(recs), kind, namespace,
             BudgetMapAdd(map, CategoryKey(kind, Head(recs).category),
                          translate(<<namespace, Head(recs).category>>, Head(recs).category),
                          Head(recs)))

\* one loop of DashboardPage over the records of a kind, into that kind's Map
RECURSIVE DashboardLoop(_, _)
DashboardLoop(recs, map) ==
    IF recs = <<>> THEN map
    ELSE DashboardLoop(Tail(recs),
             BudgetMapAdd(map, Head(recs).category, Head(recs).category, Head(recs)))

\* Array.from(map.values())
BudgetRows(map) ==
    [i \in 1..Len(map) |->
        [category |-> map[i].category, budget |-> map[i].budget, actual |-> map[i].actual]]

economyBudgetVsActual(inc, exp) ==
    BudgetRows(EconomyLoop(exp, "exp", "economy.expenseCategories",
                   EconomyLoop(inc, "inc", "economy.incomeCategories", <<>>)))

dashboardBudgetVsActual(inc, exp) ==
    BudgetRows(DashboardLoop(inc, <<>>)) \o BudgetRows(DashboardLoop(exp, <<>>))

BvaInit ==
    /\ incomeRecords \in UNION {[1..n -> IncomeRows] : n \in 0..MaxLedger}
    /\ expenseRecords \in UNION {[1..n -> ExpenseRows] : n \in 0..MaxLedger}
    /\ budgetOut = [page |-> "none"]

BvaAtRest ==
    /\ incomeRecords = <<>>
    /\ expenseRecords = <<>>
    /\ budgetOut = [page |-> "none"]

EconomyPage ==
    /\ budgetOut' = [page |-> "EconomyPage", rows |-> economyBudgetVsActual(incomeRecords, expenseRecords)]
    /\ UNCHANGED <<incomeRecords, expenseRecords>>
    /\ UNCHANGED notBva

DashboardPage ==
    /\ budgetOut' = [page |-> "DashboardPage",
                     rows |-> dashboardBudgetVsActual(incomeRecords, expenseRecords)]
    /\ UNCHANGED <<incomeRecords, expenseRecords>>
    /\ UNCHANGED notBva

BvaNext ==
    \/ EconomyPage
    \/ DashboardPage

\* ======================================================================
\* Deactivating a user (Edge Function toggle-user)
\* ======================================================================
\* two requests can be in flight at once: the button that sends one is not
\* disabled while the previous one is pending
ToggleRequests == {"r1", "r2"}

\* auth users and their rows in user_profiles
AuthUsers == {"a1", "c1", "a2"}

ToggleProfiles ==
    [id \in AuthUsers |->
        IF id = "a1" THEN [role |-> "admin", festival_id |-> "f1"]
        ELSE IF id = "c1" THEN [role |-> "crew", festival_id |-> "f1"]
        ELSE [role |-> "admin", festival_id |-> "f2"]]

\* the Authorization header: absent, a token no user holds, or a user's token
AuthHeaders == {<<>>, <<"stale">>} \cup {<<id>> : id \in AuthUsers}

\* the user_id of the body: absent or a user's id
BodyUserIds == {<<>>} \cup {<<id>> : id \in AuthUsers}

IdleRequest ==
    [pc |-> "idle", authHeader |-> <<>>, user_id |-> <<>>, isBanned |-> FALSE, status |-> 0]

\* supabaseClient.auth.getUser(): the user of the token, or null
getUser(authHeader) ==
    IF authHeader # <<>> /\ authHeader[1] \in AuthUsers THEN authHeader ELSE <<>>

\* from('user_profiles').select(...).eq('id', id).single(): the row, or null
selectProfile(id) ==
    IF id \in AuthUsers THEN <<ToggleProfiles[id]>> ELSE <<>>

Answer(r, status) ==
    toggle' = [toggle EXCEPT ![r].pc = "done", ![r].status = status]

Proceed(r, position) ==
    toggle' = [toggle EXCEPT ![r].pc = position]

\* the function is invoked
ToggleInvoke(r) ==
    /\ toggle[r].pc = "idle"
    /\ \E h \in AuthHeaders, u \in BodyUserIds :
         toggle' = [toggle EXCEPT ![r] = [IdleRequest EXCEPT !.pc = "auth",
                                                            !.authHeader = h,
                                                            !.user_id = u]]
    /\ UNCHANGED banned
    /\ UNCHANGED notTg

\* the header and getUser
ToggleAuthenticate(r) ==
    /\ toggle[r].pc = "auth"
    /\ IF toggle[r].authHeader = <<>> THEN Answer(r, 401)
       ELSE IF getUser(toggle[r].authHeader) = <<>> THEN Answer(r, 401)
       ELSE Proceed(r, "admin")
    /\ UNCHANGED banned
    /\ UNCHANGED notTg

\* the caller's profile
ToggleCheckAdmin(r) ==
    /\ toggle[r].pc = "admin"
    /\ LET callerProfile == selectProfile(getUser(toggle[r].authHeader)[1])
       IN  IF callerProfile = <<>> \/ callerProfile[1].role # "admin" THEN Answer(r, 403)
           ELSE Proceed(r, "body")
    /\ UNCHANGED banned
    /\ UNCHANGED notTg

\* the body: a user_id, and not the caller's own
ToggleCheckBody(r) ==
    /\ toggle[r].pc = "body"
    /\ IF toggle[r].user_id = <<>> THEN Answer(r, 400)
       ELSE IF toggle[r].user_id = getUser(toggle[r].authHeader) THEN Answer(r, 400)
       ELSE Proceed(r, "target")
    /\ UNCHANGED banned
    /\ UNCHANGED notTg

\* the target's profile
ToggleCheckTarget(r) ==
    /\ toggle[r].pc = "target"
    /\ LET callerProfile == selectProfile(getUser(toggle[r].authHeader)[1])
           targetProfile == selectProfile(toggle[r].user_id[1])
       IN  IF targetProfile = <<>>
              \/ targetProfile[1].festival_id # callerProfile[1].festival_id
           THEN Answer(r, 403)
           ELSE Proceed(r, "update")
    /\ UNCHANGED banned
    /\ UNCHANGED notTg

\* await supabaseAdmin.auth.admin.getUserById(user_id), and isBanned
ToggleGetUserById(r) ==
    /\ toggle[r].pc = "update"
    /\ toggle' = [toggle EXCEPT ![r].pc = "write",
                                ![r].isBanned = banned[toggle[r].user_id[1]]]
    /\ UNCHANGED banned
    /\ UNCHANGED notTg

\* await supabaseAdmin.auth.admin.updateUserById(user_id, {ban_duration}), and the
\* answer {ok: true, banned: !isBanned}
ToggleUpdateUserById(r) ==
    /\ toggle[r].pc = "write"
    /\ banned' = [banned EXCEPT ![toggle[r].user_id[1]] = ~toggle[r].isBanned]
    /\ Answer(r, 200)
    /\ UNCHANGED notTg

\* the answer has been sent
ToggleReturn(r) ==
    /\ toggle[r].pc = "done"
    /\ toggle' = [toggle EXCEPT ![r] = IdleRequest]
    /\ UNCHANGED banned
    /\ UNCHANGED notTg

TgInit ==
    /\ banned \in [AuthUsers -> BOOLEAN]
    /\ toggle = [r \in ToggleRequests |-> IdleRequest]

TgAtRest ==
    /\ banned = [id \in AuthUsers |-> FALSE]
    /\ toggle = [r \in ToggleRequests |-> IdleRequest]

TgNext ==
    \E r \in ToggleRequests :
        \/ ToggleInvoke(r)
        \/ ToggleAuthenticate(r)
        \/ ToggleCheckAdmin(r)
        \/ ToggleCheckBody(r)
        \/ ToggleCheckTarget(r)
        \/ ToggleGetUserById(r)
        \/ ToggleUpdateUserById(r)
        \/ ToggleReturn(r)

\* ======================================================================
\* PDF reports (generateSponsorReportPdf, generateAnnualReportPdf): layout
\* ======================================================================
MaxSponsors == 3

\* lengths in mm, the unit of new jsPDF()
SponsorReportStartY == 42
AnnualReportStartY == 50
HeaderGap == 6
DeliverablesHeaderGap == 5
TableGap == 10
DeliverablesTableGap == 8
SponsorReportThreshold == 260
AnnualReportThreshold == 230
NewPageY == 20

\* jspdf-autotable: the height of a row, the top of a continuation page and the
\* lowest point a row may reach on a page
RowHeight == 8
TableTopMargin == 14
PageBottom == 283

\* how many deliverables a sponsor has, how many ticket types were sold, and how
\* many categories the actual income and expenses fall into
DeliverableCounts == {0, 1, 12, 25}
TicketTypeCounts == {0, 1, 10, 17, 20}
LedgerCategoryCounts == {0, 2}

\* autoTable(doc, {startY, head, body}): rows are laid out downwards and continue at
\* the top of a new page when the next one does not fit; lastAutoTable.finalY
RECURSIVE autoTable(_, _, _)
autoTable(startY, onPage, rows) ==
    IF rows = 0 THEN [finalY |-> startY, page |-> onPage]
    ELSE IF startY + RowHeight > PageBottom
         THEN autoTable(TableTopMargin + RowHeight, onPage + 1, rows - 1)
         ELSE autoTable(startY + RowHeight, onPage, rows - 1)

\* doc.text(title, 14, y)
DrawHeader(section, y, onPage) ==
    pdfHeaders' = Append(pdfHeaders, [section |-> section, page |-> onPage, y |-> y])

\* a section without a preceding check of y: header at y, table below it
LayOutSection(section, headerGap, rows, tableGap) ==
    LET table == autoTable(pdfY + headerGap, pdfPage, rows)
    IN  /\ DrawHeader(section, pdfY, pdfPage)
        /\ pdfY' = table.finalY + tableGap
        /\ pdfPage' = table.page

\* if (y > threshold) { doc.addPage(); y = 20 }, then the section
LayOutSectionChecked(section, threshold, headerGap, rows, tableGap) ==
    LET breaks == pdfY > threshold
        y == IF breaks THEN NewPageY ELSE pdfY
        onPage == IF breaks THEN pdfPage + 1 ELSE pdfPage
        table == autoTable(y + headerGap, onPage, rows)
    IN  /\ DrawHeader(section, y, onPage)
        /\ pdfY' = table.finalY + tableGap
        /\ pdfPage' = table.page

\* ---- generateSponsorReportPdf ---------------------------------------------
\* 'Sammendrag' and its table of four rows without a head
SponsorSummary ==
    /\ pdfIn.report = "sponsor" /\ pdfPc = "start"
    /\ LayOutSection("Sammendrag", HeaderGap, 4, TableGap)
    /\ pdfPc' = "Sponsorliste"
    /\ UNCHANGED <<pdfIn, pdfSponsor>>
    /\ UNCHANGED notPdf

\* 'Sponsorliste' and its table: a head and a row for each sponsor
SponsorList ==
    /\ pdfIn.report = "sponsor" /\ pdfPc = "Sponsorliste"
    /\ LayOutSection("Sponsorliste", HeaderGap, 1 + Len(pdfIn.deliverables), TableGap)
    /\ pdfPc' = "Leveranser"
    /\ pdfSponsor' = 1
    /\ UNCHANGED pdfIn
    /\ UNCHANGED notPdf

\* one iteration of for (const sp of sponsors), for a sponsor without deliverables
SponsorWithoutDeliverables ==
    /\ pdfIn.report = "sponsor" /\ pdfPc = "Leveranser"
    /\ pdfSponsor <= Len(pdfIn.deliverables)
    /\ pdfIn.deliverables[pdfSponsor] = 0
    /\ pdfSponsor' = pdfSponsor + 1
    /\ UNCHANGED <<pdfIn, pdfPc, pdfY, pdfPage, pdfHeaders>>
    /\ UNCHANGED notPdf

\* one iteration for a sponsor with deliverables
SponsorDeliverables ==
    /\ pdfIn.report = "sponsor" /\ pdfPc = "Leveranser"
    /\ pdfSponsor <= Len(pdfIn.deliverables)
    /\ pdfIn.deliverables[pdfSponsor] > 0
    /\ LayOutSectionChecked("Leveranser", SponsorReportThreshold, DeliverablesHeaderGap,
                            1 + pdfIn.deliverables[pdfSponsor], DeliverablesTableGap)
    /\ pdfSponsor' = pdfSponsor + 1
    /\ UNCHANGED <<pdfIn, pdfPc>>
    /\ UNCHANGED notPdf

\* return doc
SponsorReturn ==
    /\ pdfIn.report = "sponsor" /\ pdfPc = "Leveranser"
    /\ pdfSponsor > Len(pdfIn.deliverables)
    /\ pdfPc' = "done"
    /\ UNCHANGED <<pdfIn, pdfSponsor, pdfY, pdfPage, pdfHeaders>>
    /\ UNCHANGED notPdf

\* ---- generateAnnualReportPdf ----------------------------------------------
\* section 1: 'Billettsalg og F&B' and its table: a head and three rows
AnnualTicketSales ==
    /\ pdfIn.report = "annual" /\ pdfPc = "start"
    /\ LayOutSection("Billettsalg og F&B", HeaderGap, 1 + 3, TableGap)
    /\ pdfPc' = "Per billetttype"
    /\ UNCHANGED <<pdfIn, pdfSponsor>>
    /\ UNCHANGED notPdf

\* section 2: 'Per billetttype', when a ticket was sold: a head and a row for each type
AnnualByTicketType ==
    /\ pdfIn.report = "annual" /\ pdfPc = "Per billetttype"
    /\ IF pdfIn.ticketTypes > 0
       THEN LayOutSection("Per billetttype", HeaderGap, 1 + pdfIn.ticketTypes, TableGap)
       ELSE UNCHANGED <<pdfY, pdfPage, pdfHeaders>>
    /\ pdfPc' = "Okonomi"
    /\ UNCHANGED <<pdfIn, pdfSponsor>>
    /\ UNCHANGED notPdf

\* section 3: 'Økonomi': a head, a row for each category, the two sums, two empty
\* rows and RESULTAT
AnnualEconomy ==
    /\ pdfIn.report = "annual" /\ pdfPc = "Okonomi"
    /\ LayOutSection("Okonomi", HeaderGap, 1 + pdfIn.categories + 5, TableGap)
    /\ pdfPc' = "Sponsorer"
    /\ UNCHANGED <<pdfIn, pdfSponsor>>
    /\ UNCHANGED notPdf

\* section 4: 'Sponsorer', when there is a sponsor: a head, a row for each and 'Totalt'
AnnualSponsors ==
    /\ pdfIn.report = "annual" /\ pdfPc = "Sponsorer"
    /\ IF pdfIn.sponsors > 0
       THEN LayOutSectionChecked("Sponsorer", AnnualReportThreshold, HeaderGap,
                                 1 + pdfIn.sponsors + 1, 0)
       ELSE UNCHANGED <<pdfY, pdfPage, pdfHeaders>>
    /\ pdfPc' = "done"
    /\ UNCHANGED <<pdfIn, pdfSponsor>>
    /\ UNCHANGED notPdf

SponsorReportInputs ==
    {[report |-> "sponsor", deliverables |-> d] :
        d \in UNION {[1..n -> DeliverableCounts] : n \in 0..MaxSponsors}}

AnnualReportInputs ==
    [report : {"annual"}, ticketTypes : TicketTypeCounts,
     categories : LedgerCategoryCounts, sponsors : 0..MaxSponsors]

PdfInit ==
    /\ pdfIn \in SponsorReportInputs \cup AnnualReportInputs
    /\ pdfPc = "start"
    /\ pdfSponsor = 0
    /\ pdfY = IF pdfIn.report = "sponsor" THEN SponsorReportStartY ELSE AnnualReportStartY
    /\ pdfPage = 1
    /\ pdfHeaders = <<>>

PdfAtRest ==
    /\ pdfIn = [report |-> "none"]
    /\ pdfPc = "done"
    /\ pdfSponsor = 0
    /\ pdfY = 0
    /\ pdfPage = 1
    /\ pdfHeaders = <<>>

PdfNext ==
    \/ SponsorSummary
    \/ SponsorList
    \/ SponsorWithoutDeliverables
    \/ SponsorDeliverables
    \/ SponsorReturn
    \/ AnnualTicketSales
    \/ AnnualByTicketType
    \/ AnnualEconomy
    \/ AnnualSponsors

\* ======================================================================
\* AuthProvider, App and SetPasswordPage
\* ======================================================================
\* who awaits a fetch: the effect's getSession chain, the onAuthStateChange
\* callback, or refreshProfile
Origins == {"getSession", "onAuthStateChange", "refreshProfile"}

Awaited(call, origin) == [call |-> call, origin |-> origin]

\* the rows the user's profile can be: has_password is NOT NULL, festival_id nullable
ProfileRows == [has_password : BOOLEAN, festival_id : {<<>>, <<"f1">>}]

\* what App renders
Routes ==
    IF authLoading THEN "spinner"
    ELSE LET needsPassword ==
                 /\ authSession # <<>>
                 /\ \/ isPasswordRecovery
                    \/ authProfile # <<>> /\ authProfile[1].has_password = FALSE
         IN  IF authSession = <<>> THEN "UnauthenticatedRoutes"
             ELSE IF needsPassword THEN "SetPasswordRoutes"
             ELSE "AuthenticatedRoutes"

SettleKeepsLoading(origin) == UNCHANGED authLoading

\* setLoading(false), which only the getSession chain of the effect calls
SettleLoading(origin) ==
    authLoading' = IF origin = "getSession" THEN FALSE ELSE authLoading

\* getSession() resolves with the client's session
ResolveGetSession ==
    /\ Awaited("getSession", "getSession") \in inFlight
    /\ authSession' = IF clientSession THEN <<"u1">> ELSE <<>>
    /\ IF clientSession
       THEN /\ inFlight' = (inFlight \ {Awaited("getSession", "getSession")})
                             \cup {Awaited("fetchProfile", "getSession")}
            /\ UNCHANGED authLoading
       ELSE /\ inFlight' = inFlight \ {Awaited("getSession", "getSession")}
            /\ authLoading' = FALSE
    /\ UNCHANGED <<clientSession, dbProfile, authProfile, authFestival,
                   isPasswordRecovery, arrivedByRecovery>>
    /\ UNCHANGED notAuth

\* getSession() rejects: .catch(() => setLoading(false))
RejectGetSession ==
    /\ Awaited("getSession", "getSession") \in inFlight
    /\ inFlight' = inFlight \ {Awaited("getSession", "getSession")}
    /\ SettleLoading("getSession")
    /\ UNCHANGED <<clientSession, dbProfile, authSession, authProfile, authFestival,
                   isPasswordRecovery, arrivedByRecovery>>
    /\ UNCHANGED notAuth

\* the query of fetchProfile resolves, with the row or with null; setProfile(data);
\* then the caller's continuation: fetchFestival when the row names a festival
ResolveFetchProfile(origin) ==
    /\ Awaited("fetchProfile", origin) \in inFlight
    /\ \E data \in {<<>>, <<dbProfile>>} :
         /\ authProfile' = data
         /\ IF data # <<>> /\ data[1].festival_id # <<>>
            THEN /\ inFlight' = (inFlight \ {Awaited("fetchProfile", origin)})
                                  \cup {Awaited("fetchFestival", origin)}
                 /\ UNCHANGED authLoading
            ELSE /\ inFlight' = inFlight \ {Awaited("fetchProfile", origin)}
                 /\ SettleLoading(origin)
    /\ UNCHANGED <<clientSession, dbProfile, authSession, authFestival,
                   isPasswordRecovery, arrivedByRecovery>>
    /\ UNCHANGED notAuth

\* the query of fetchProfile throws: catch { return null }
ThrowFetchProfile(origin) ==
    /\ Awaited("fetchProfile", origin) \in inFlight
    /\ inFlight' = inFlight \ {Awaited("fetchProfile", origin)}
    /\ SettleLoading(origin)
    /\ UNCHANGED <<clientSession, dbProfile, authSession, authProfile, authFestival,
                   isPasswordRecovery, arrivedByRecovery>>
    /\ UNCHANGED notAuth

\* the query of fetchFestival resolves, with the festival or with null;
\* setFestival(data); .finally(() => setLoading(false)) in the getSession chain
ResolveFetchFestival(origin) ==
    /\ Awaited("fetchFestival", origin) \in inFlight
    /\ \E data \in {<<>>, <<"f1">>} : authFestival' = data
    /\ inFlight' = inFlight \ {Awaited("fetchFestival", origin)}
    /\ SettleLoading(origin)
    /\ UNCHANGED <<clientSession, dbProfile, authSession, authProfile,
                   isPasswordRecovery, arrivedByRecovery>>
    /\ UNCHANGED notAuth

\* the query of fetchFestival throws: catch {}
ThrowFetchFestival(origin) ==
    /\ Awaited("fetchFestival", origin) \in inFlight
    /\ inFlight' = inFlight \ {Awaited("fetchFestival", origin)}
    /\ SettleLoading(origin)
    /\ UNCHANGED <<clientSession, dbProfile, authSession, authProfile, authFestival,
                   isPasswordRecovery, arrivedByRecovery>>
    /\ UNCHANGED notAuth

\* onAuthStateChange('SIGNED_IN', session): a sign-in in this tab or in another
OnSignedIn ==
    /\ clientSession' = TRUE
    /\ authSession' = <<"u1">>
    /\ inFlight' = inFlight \cup {Awaited("fetchProfile", "onAuthStateChange")}
    /\ UNCHANGED <<dbProfile, authProfile, authFestival, authLoading,
                   isPasswordRecovery, arrivedByRecovery>>
    /\ UNCHANGED notAuth

\* onAuthStateChange('PASSWORD_RECOVERY', session): the user followed a recovery link
OnPasswordRecovery ==
    /\ clientSession' = TRUE
    /\ authSession' = <<"u1">>
    /\ isPasswordRecovery' = TRUE
    /\ arrivedByRecovery' = TRUE
    /\ inFlight' = inFlight \cup {Awaited("fetchProfile", "onAuthStateChange")}
    /\ UNCHANGED <<dbProfile, authProfile, authFestival, authLoading>>
    /\ UNCHANGED notAuth

\* onAuthStateChange('SIGNED_OUT', null)
OnSignedOut ==
    /\ clientSession
    /\ clientSession' = FALSE
    /\ authSession' = <<>>
    /\ authProfile' = <<>>
    /\ authFestival' = <<>>
    /\ UNCHANGED <<dbProfile, authLoading, isPasswordRecovery, inFlight, arrivedByRecovery>>
    /\ UNCHANGED notAuth

\* SetPasswordPage, handleSubmit with a password that auth.updateUser accepts: the
\* update of has_password, setIsPasswordRecovery(false), refreshProfile()
SetPassword ==
    /\ Routes = "SetPasswordRoutes"
    /\ dbProfile' = [dbProfile EXCEPT !.has_password = TRUE]
    /\ isPasswordRecovery' = FALSE
    /\ arrivedByRecovery' = FALSE
    /\ inFlight' = inFlight \cup {Awaited("fetchProfile", "refreshProfile")}
    /\ UNCHANGED <<clientSession, authSession, authProfile, authFestival, authLoading>>
    /\ UNCHANGED notAuth

\* AuthProvider has mounted: the states' initial values, and getSession() called
AuthInit ==
    /\ clientSession \in BOOLEAN
    /\ dbProfile \in ProfileRows
    /\ authSession = <<>>
    /\ authProfile = <<>>
    /\ authFestival = <<>>
    /\ authLoading = TRUE
    /\ isPasswordRecovery = FALSE
    /\ inFlight = {Awaited("getSession", "getSession")}
    /\ arrivedByRecovery = FALSE

\* the application is not open
AuthAtRest ==
    /\ clientSession = FALSE
    /\ dbProfile = [has_password |-> TRUE, festival_id |-> <<"f1">>]
    /\ authSession = <<>>
    /\ authProfile = <<>>
    /\ authFestival = <<>>
    /\ authLoading = TRUE
    /\ isPasswordRecovery = FALSE
    /\ inFlight = {}
    /\ arrivedByRecovery = FALSE

\* a promise of the effect's getSession chain settles
SettleInitial ==
    \/ ResolveGetSession
    \/ RejectGetSession
    \/ ResolveFetchProfile("getSession")
    \/ ThrowFetchProfile("getSession")
    \/ ResolveFetchFestival("getSession")
    \/ ThrowFetchFestival("getSession")

AuthNext ==
    \/ ResolveGetSession
    \/ RejectGetSession
    \/ \E origin \in Origins :
          \/ ResolveFetchProfile(origin)
          \/ ThrowFetchProfile(origin)
          \/ ResolveFetchFestival(origin)
          \/ ThrowFetchFestival(origin)
    \/ OnSignedIn
    \/ OnPasswordRecovery
    \/ OnSignedOut
    \/ SetPassword

\* ======================================================================
\* Specifications
\* ======================================================================
SyncAtRest ==
    /\ SyncInit
    /\ integrations["f2"].ticketco_api_key = NULL

Init == SyncInit /\ CsvAtRest /\ VatAtRest /\ RlsAtRest /\ ClsAtRest /\ UtilAtRest /\ BvaAtRest /\ TgAtRest /\ PdfAtRest /\ AuthAtRest

Spec == Init /\ [][Next]_vars

\* the handler against a provider that already holds the event's orders, placed
\* before the first instant the model looks at, and takes no new ones
PagesInit ==
    /\ integrations \in IntegrationConfigs
    /\ ticket_sales = <<>>
    /\ sync_log = <<>>
    /\ now = StartTime
    /\ pc = "idle"
    /\ festivalId = NULL
    /\ queue = <<>>
    /\ cur = NULL
    /\ sinceDate = Epoch
    /\ page = 1
    /\ allOrders = <<>>
    /\ salesRows = <<>>
    /\ results = <<>>
    /\ response = NoResponse
    /\ runs = 0
    /\ runStartSales = <<>>
    /\ invStartLen = 0
    /\ fetched = 0
    /\ midRun = {}
    /\ \E n \in 0..MaxPageOrders :
         /\ provider = [e \in Events |->
                          IF e = "e1"
                          THEN [i \in 1..n |->
                                  [id |-> i, created_at |-> Epoch + 1,
                                   order_lines |-> OrderShape(i).order_lines,
                                   source |-> OrderShape(i).source]]
                          ELSE <<>>]
         /\ nextOrderId = n + 1

PagesNext ==
    \/ Invoke
    \/ TenantStart
    \/ FetchPageOk
    \/ FetchPageHttpError
    \/ FetchPageMalformed
    \/ StoreSales
    \/ StoreSalesRejected
    \/ LogSuccess
    \/ Respond

\* a request to the provider is answered: await fetch(url) resolves
FetchStep == FetchPageOk \/ FetchPageHttpError \/ FetchPageMalformed

InitPages == PagesInit /\ CsvAtRest /\ VatAtRest /\ RlsAtRest /\ ClsAtRest /\ UtilAtRest /\ BvaAtRest /\ TgAtRest /\ PdfAtRest /\ AuthAtRest

SpecPages == InitPages /\ [][PagesNext]_vars /\ WF_vars(FetchStep)

InitCsv == SyncAtRest /\ CsvInit /\ VatAtRest /\ RlsAtRest /\ ClsAtRest /\ UtilAtRest /\ BvaAtRest /\ TgAtRest /\ PdfAtRest /\ AuthAtRest

SpecCsv == InitCsv /\ [][CsvNext]_vars

InitVat == SyncAtRest /\ CsvAtRest /\ VatInit /\ RlsAtRest /\ ClsAtRest /\ UtilAtRest /\ BvaAtRest /\ TgAtRest /\ PdfAtRest /\ AuthAtRest

SpecVat == InitVat /\ [][VatNext]_vars

InitRls == SyncAtRest /\ CsvAtRest /\ VatAtRest /\ RlsInit /\ ClsAtRest /\ UtilAtRest /\ BvaAtRest /\ TgAtRest /\ PdfAtRest /\ AuthAtRest

SpecRls == InitRls /\ [][RlsNext]_vars

InitCls == SyncAtRest /\ CsvAtRest /\ VatAtRest /\ RlsAtRest /\ ClsInit /\ UtilAtRest /\ BvaAtRest /\ TgAtRest /\ PdfAtRest /\ AuthAtRest

SpecCls == InitCls /\ [][ClsNext]_vars

InitUtil ==
    SyncAtRest /\ CsvAtRest /\ VatAtRest /\ RlsAtRest /\ ClsAtRest /\ UtilInit /\ BvaAtRest /\ TgAtRest /\ PdfAtRest /\ AuthAtRest

SpecUtil == InitUtil /\ [][UtilNext]_vars

InitBva ==
    SyncAtRest /\ CsvAtRest /\ VatAtRest /\ RlsAtRest /\ ClsAtRest /\ UtilAtRest
    /\ BvaInit /\ TgAtRest /\ PdfAtRest /\ AuthAtRest

SpecBva == InitBva /\ [][BvaNext]_vars

InitTg ==
    SyncAtRest /\ CsvAtRest /\ VatAtRest /\ RlsAtRest /\ ClsAtRest /\ UtilAtRest /\ BvaAtRest
    /\ TgInit /\ PdfAtRest /\ AuthAtRest

SpecTg == InitTg /\ [][TgNext]_vars

InitPdf ==
    SyncAtRest /\ CsvAtRest /\ VatAtRest /\ RlsAtRest /\ ClsAtRest /\ UtilAtRest /\ BvaAtRest /\ TgAtRest
    /\ PdfInit /\ AuthAtRest

SpecPdf == InitPdf /\ [][PdfNext]_vars

InitAuth ==
    SyncAtRest /\ CsvAtRest /\ VatAtRest /\ RlsAtRest /\ ClsAtRest /\ UtilAtRest /\ BvaAtRest /\ TgAtRest /\ PdfAtRest
    /\ AuthInit

SpecAuth == InitAuth /\ [][AuthNext]_vars

\* every promise of the getSession chain settles: a request is answered or times out
SpecAuthLive == InitAuth /\ [][AuthNext]_vars /\ WF_vars(SettleInitial)

\* ======================================================================
\* Ticket sync job: properties
\* ======================================================================
ExternalIds(rows) == {rows[i].ticketco_id : i \in 1..Len(rows)}

NoDuplicateExternalIds ==
    \A i, j \in 1..Len(ticket_sales) :
        ticket_sales[i].ticketco_id = ticket_sales[j].ticketco_id => i = j

\* a tenant run stores rows that are all in the ledger already
RerunStep ==
    /\ pc = "store"
    /\ pc' = "logok"
    /\ ExternalIds(salesRows') \subseteq ExternalIds(ticket_sales)

\* C1: the ledger never holds two rows with one external id order_id-line_id, and
\* a run that stores only external ids the ledger already holds (a re-run against
\* the same provider responses) leaves the number of ledger rows as it was.
C1_IdempotentSync ==
    /\ []NoDuplicateExternalIds
    /\ [][RerunStep => Len(ticket_sales') = Len(ticket_sales)]_vars

\* a run has just stored at least one row, all of them stored by earlier runs too
C1_Witness ==
    /\ pc = "logok"
    /\ salesRows # <<>>
    /\ ExternalIds(salesRows) \subseteq ExternalIds(runStartSales)
    /\ Len(ticket_sales) = Len(runStartSales)

\* C2: no step changes the festival_id of a ledger row: a row stays with the tenant
\* whose run created it, whichever tenants run later.
C2_RowsStayWithTheirTenant ==
    [][\A i \in 1..Len(ticket_sales), j \in 1..Len(ticket_sales') :
          ticket_sales[i].ticketco_id = ticket_sales'[j].ticketco_id
              => ticket_sales[i].festival_id = ticket_sales'[j].festival_id]_vars

Responding == pc = "loop" /\ pc' = "idle"

ResultFestivals(rs) == {rs[i].festival_id : i \in 1..Len(rs)}

\* C3: when the loop answers, its response holds exactly one result entry for every
\* tenant with configured credentials that the request covers, whether or not the
\* routine of an earlier tenant failed.
C3_FailureDoesNotStopLaterTenants ==
    [][Responding =>
          /\ DOMAIN response' = {"results"}
          /\ ResultFestivals(response'.results) = Configured(festivalId)
          /\ Len(response'.results) = Cardinality(Configured(festivalId))]_vars

\* a response in which the first tenant failed and the tenant after it succeeded
C3_Witness ==
    /\ pc = "idle"
    /\ DOMAIN response = {"results"}
    /\ Len(response.results) = 2
    /\ response.results[1].status = "error"
    /\ response.results[2].status = "success"

RunEnds == pc \in {"fetch", "logok"} /\ pc' = "loop"

SuccessTimes(f) ==
    {sync_log[i].synced_at : i \in {j \in 1..Len(sync_log) :
                                      /\ sync_log[j].festival_id = f
                                      /\ sync_log[j].status = "success"}}

Watermark(f) ==
    IF SuccessTimes(f) = {} THEN Epoch
    ELSE CHOOSE t \in SuccessTimes(f) : \A u \in SuccessTimes(f) : u <= t

\* C5 as claimed: during a tenant run the since bound equals the synced_at of the
\* tenant's latest success entry, or 2020-01-01 when it has none.
C5_SinceEqualsWatermark ==
    pc = "fetch" => sinceDate = Watermark(cur)

\* C5 as amended: during a tenant run the since bound is the synced_at of the
\* tenant's latest success entry cut to whole milliseconds, or 2020-01-01 when the
\* tenant has no success entry; error entries and other tenants' entries do not
\* enter it.
C5_SinceIsWatermarkInMillis ==
    pc = "fetch" =>
        /\ sinceDate % TicksPerMilli = 0
        /\ sinceDate <= Watermark(cur)
        /\ Watermark(cur) - sinceDate < TicksPerMilli

\* a run starts after the tenant logged a success at an instant that is not a whole
\* millisecond
C5_Witness ==
    /\ pc = "fetch"
    /\ SuccessTimes(cur) # {}
    /\ sinceDate < Watermark(cur)

StatusText(status) == IF status = 404 THEN "Not Found" ELSE "Internal Server Error"

WrittenCells ==
    UNION {{csvRows[r][c] : c \in 1..Len(csvRows[r])} : r \in 1..Len(csvRows)}

StartsWithFormulaChar(value) == value # <<>> /\ Head(value) \in FormulaChars

\* the cell starts with a single quote, inside the opening double quote when quoted
StartsGuarded(cell) ==
    \/ Len(cell) >= 1 /\ cell[1] = "'"
    \/ Len(cell) >= 2 /\ cell[1] = "\"" /\ cell[2] = "'"

\* C7: whichever CSV exporter ran, every free-text cell (ticket type, category,
\* description, source/supplier) written from a value that starts with =, +, -, @,
\* tab or carriage return starts with a single quote.
C7_FreeTextCellsAreGuarded ==
    \A c \in WrittenCells : StartsWithFormulaChar(c.value) => StartsGuarded(c.cell)

\* the guarded value: the original, prefixed with ' when it starts with a formula
\* character
Guarded(value) == IF StartsWithFormulaChar(value) THEN <<"'">> \o value ELSE value

QuoteCount(str) == Cardinality({i \in 1..Len(str) : str[i] = "\""})

\* a CSV reader undoing the doubling of quotes
RECURSIVE Undouble(_)
Undouble(str) ==
    IF str = <<>> THEN <<>>
    ELSE IF Len(str) >= 2 /\ str[1] = "\"" /\ str[2] = "\""
         THEN <<"\"">> \o Undouble(SubSeq(str, 3, Len(str)))
         ELSE <<Head(str)>> \o Undouble(Tail(str))

\* a CSV reader taking one field back to its value
Unquote(cell) ==
    IF Len(cell) >= 2 /\ cell[1] = "\"" /\ cell[Len(cell)] = "\""
    THEN Undouble(SubSeq(cell, 2, Len(cell) - 1))
    ELSE cell

UsesEscapeCsv ==
    csvExporter \in {"exportSalesCsv", "exportEconomyCsv", "exportAccountingTicketsCsv"}

\* C8: a cell written by escapeCsv from a value holding a comma, a double quote or
\* a newline is the guarded value with every double quote doubled, wrapped in
\* double quotes; and reading any cell back as a CSV field gives the guarded value.
C8_GuardThenQuoteRoundTrip ==
    UsesEscapeCsv =>
        \A c \in WrittenCells :
            /\ needsQuoting(c.value) =>
                 /\ Len(c.cell) = Len(Guarded(c.value)) + QuoteCount(Guarded(c.value)) + 2
                 /\ c.cell[1] = "\""
                 /\ c.cell[Len(c.cell)] = "\""
                 /\ QuoteCount(c.cell) = 2 * QuoteCount(Guarded(c.value)) + 2
            /\ Unquote(c.cell) = Guarded(c.value)

\* the economy export wrote a value that starts with = and holds a double quote
C8_Witness ==
    /\ csvExporter = "exportEconomyCsv"
    /\ csvText = <<"=", "\"">>
    /\ \E c \in WrittenCells : c.cell = <<"\"", "'", "=", "\"", "\"", "\"">>

\* the tenants with a provider API key
WithCredentials == {f \in Festivals : integrations[f].ticketco_api_key # NULL}

\* the tenants a request is for: the one it names, or all of them
Scope(fid) == IF fid = NULL THEN Festivals ELSE {fid}

\* C15: a request that names a festival starts the per-tenant routine for that
\* festival only, and a request that names none starts it once for every festival
\* with a provider API key; in both cases the tenants are queued for the same
\* routine, and the response lists exactly the tenants of the request's scope that
\* have a key.
C15_ScopedToRequestedTenant ==
    [][/\ (pc = "idle" /\ pc' = "loop") =>
            /\ Range(queue') = Scope(festivalId') \cap WithCredentials
            /\ Len(queue') = Cardinality(Scope(festivalId') \cap WithCredentials)
       /\ (pc = "loop" /\ pc' = "fetch") =>
            /\ cur' \in Scope(festivalId) \cap WithCredentials
            /\ cur' \notin ResultFestivals(results)
       /\ Responding =>
            ResultFestivals(response'.results) = Scope(festivalId) \cap WithCredentials]_vars

\* both tenants have a key, the request names f2, and the only tenant run of the
\* invocation is f2's
C15_Witness ==
    /\ WithCredentials = Festivals
    /\ festivalId = "f2"
    /\ pc = "logok"
    /\ cur = "f2"
    /\ queue = <<>>
    /\ results = <<>>

\* C16: a tenant without a provider API key is never queued and never the tenant of
\* a run, no ticket_sales row carries its festival id, and the sync log holds no
\* entry for it.
C16_NoCredentialsNoRun ==
    \A f \in Festivals \ WithCredentials :
        /\ f \notin Range(queue)
        /\ cur # f
        /\ \A i \in 1..Len(ticket_sales) : ticket_sales[i].festival_id # f
        /\ \A i \in 1..Len(sync_log) : sync_log[i].festival_id # f
        /\ \A i \in 1..Len(results) : results[i].festival_id # f

\* f2 has no key; f1 was synced, and then a request was answered without a run
C16_Witness ==
    /\ integrations["f2"].ticketco_api_key = NULL
    /\ sync_log # <<>>
    /\ pc = "idle"
    /\ DOMAIN response = {"message"}

\* a tenant run ends with its success entry
LogsSuccess == pc = "logok" /\ pc' = "loop"

\* C19: when a successful run of a tenant ends, every order that was placed during
\* an earlier successful run of the tenant, after that run's last page fetch and
\* before its log entry, has been fetched by this run or was stored before it began.
C19_OrderPlacedMidRunIsFetchedLater ==
    [][LogsSuccess =>
          \A m \in midRun :
              (m.festival_id = cur /\ m.logged < Len(sync_log)) =>
                  \/ \E i \in 1..Len(allOrders) : allOrders[i].id = m.order
                  \/ \E i \in 1..Len(runStartSales) :
                        runStartSales[i].ticketco_id[1] = m.order]_vars

\* C20: a success entry is written only when every row the run transformed is in
\* ticket_sales as the run transformed it.
C20_SuccessOnlyWhenRowsStored ==
    [][LogsSuccess =>
          \A i \in 1..Len(salesRows) :
              \E j \in 1..Len(ticket_sales) : ticket_sales[j] = salesRows[i]]_vars

\* the orders the provider holds for the current tenant's event since the run's
\* since value, and the number of non-empty pages they make
Matching ==
    SelectSeq(provider[integrations[cur].ticketco_event_id],
              LAMBDA o : o.created_at >= sinceDate)

PageSize == IF PerPage < ProviderPageCap THEN PerPage ELSE ProviderPageCap

NonEmptyPages == (Len(Matching) + PageSize - 1) \div PageSize

\* C21: the fetch loop asks for page 1, 2, ... with one since value, adds each
\* non-empty page to the orders gathered, in page order, and at the first empty
\* page goes on to store what it gathered, without an error entry; with k non-empty
\* pages it has then made k + 1 requests and holds exactly the orders of pages
\* 1..k; and a loop that is fetching stops fetching.
C21_FetchLoopGathersAllPages ==
    /\ [][(pc = "fetch" /\ fetched' = fetched + 1) =>
             /\ page = fetched + 1
             /\ sinceDate' = sinceDate
             /\ sync_log' = sync_log
             /\ LET first == (page - 1) * PageSize + 1
                    last == IF page * PageSize < Len(Matching) THEN page * PageSize
                            ELSE Len(Matching)
                IN  IF first > Len(Matching)
                    THEN pc' = "store" /\ allOrders' = allOrders /\ page' = page
                    ELSE /\ pc' = "fetch"
                         /\ page' = page + 1
                         /\ allOrders' = allOrders \o SubSeq(Matching, first, last)]_vars
    /\ [](pc = "store" =>
             /\ fetched = NonEmptyPages + 1
             /\ page = NonEmptyPages + 1
             /\ allOrders = Matching)
    /\ (pc = "fetch" ~> pc # "fetch")

\* three non-empty pages and the empty fourth: four requests, three orders gathered
C21_Witness ==
    /\ pc = "store"
    /\ NonEmptyPages = 3
    /\ fetched = 4
    /\ [i \in 1..3 |-> allOrders[i].id] = <<1, 2, 3>>

\* the provider's order lines by the external id their row carries
ProviderLines ==
    UNION {UNION {{[ticketco_id |-> <<provider[e][o].id, "-", provider[e][o].order_lines[l].id>>,
                    line |-> provider[e][o].order_lines[l]] :
                      l \in 1..Len(provider[e][o].order_lines)} :
                  o \in 1..Len(provider[e])} :
           e \in Events}

\* C22: every row of ticket_sales, and every row a run has transformed, has
\* price_inc_vat = price_ex_vat + vat_amount, carries the gross price and the VAT
\* amount of the provider line it was made from, and a vat_rate that is the line's
\* percentage over 100.
C22_RowAmountsAddUp ==
    \A r \in Range(ticket_sales) \cup Range(salesRows) :
        /\ r.price_inc_vat = r.price_ex_vat + r.vat_amount
        /\ \E pl \in ProviderLines :
              /\ pl.ticketco_id = r.ticketco_id
              /\ r.price_inc_vat = pl.line.price
              /\ r.vat_amount = pl.line.vat_amount
              /\ r.vat_rate[1] * 100 = pl.line.vat_rate * r.vat_rate[2]

\* the day pass sold for 125 with 25 VAT at 25 % is stored as 100 + 25 = 125 at
\* 25/100
C22_Witness ==
    \E r \in Range(ticket_sales) :
        /\ r.ticket_type = "Dagspass"
        /\ r.price_ex_vat = 100
        /\ r.vat_amount = 25
        /\ r.price_inc_vat = 125
        /\ r.vat_rate = <<25, 100>>

\* ======================================================================
\* Line classification: properties
\* ======================================================================
Keywords == {<<"f", "o", "o", "d">>, <<"m", "a", "t">>,
             <<"d", "r", "i", "k", "k", "e">>,
             <<"b", "e", "v", "e", "r", "a", "g", "e">>}

UpperOf == [c \in {"a", "b", "d", "e", "f", "g", "i", "k", "m", "o", "r", "t", "v"} |->
              CASE c = "a" -> "A" [] c = "b" -> "B" [] c = "d" -> "D" [] c = "e" -> "E"
                [] c = "f" -> "F" [] c = "g" -> "G" [] c = "i" -> "I" [] c = "k" -> "K"
                [] c = "m" -> "M" [] c = "o" -> "O" [] c = "r" -> "R" [] c = "t" -> "T"
                [] c = "v" -> "V"]

\* the text holds the word at some position, each letter in either case
ContainsIgnoringCase(text, word) ==
    \E i \in 1..Len(text) :
        /\ i + Len(word) - 1 <= Len(text)
        /\ \A j \in 1..Len(word) :
              text[i + j - 1] = word[j] \/ text[i + j - 1] = UpperOf[word[j]]

\* C14: the row of a line is fb exactly when the line has a category that contains
\* food, mat, drikke or beverage in any mix of cases, and ticket otherwise, the
\* line without a category included.
C14_FoodExactlyOnKeyword ==
    classified # "none" =>
        /\ classified \in {"fb", "ticket"}
        /\ classified = "fb" <=>
              /\ lineCategory # <<>>
              /\ \E word \in Keywords : ContainsIgnoringCase(lineCategory[1], word)

\* a line categorised "Mat/drikke" has become fb
C14_Witness ==
    /\ lineCategory = <<(<<"M", "a", "t", "/", "d", "r", "i", "k", "k", "e">>)>>
    /\ classified = "fb"

\* ======================================================================
\* Sales summaries: properties
\* ======================================================================
\* the distinct dates of the sales that have one, and the distinct ticket types
SaleDates ==
    {SubSeq(salesIn[i].sold_at[1], 1, 5) : i \in {j \in 1..Len(salesIn) : salesIn[j].sold_at # <<>>}}

SaleTypes == {salesIn[i].ticket_type : i \in 1..Len(salesIn)}

\* date a is before date b
Before(a, b) ==
    \/ a[1] < b[1]
    \/ a[1] = b[1] /\ a[3] < b[3]
    \/ a[1] = b[1] /\ a[3] = b[3] /\ a[5] < b[5]

RECURSIVE QuantityOf(_, _)
QuantityOf(idx, sales) ==
    IF idx = {} THEN 0
    ELSE LET i == CHOOSE j \in idx : TRUE
         IN  sales[i].quantity + QuantityOf(idx \ {i}, sales)

\* C17: groupByDate returns one summary for each date some sale was made on, an
\* earlier date before a later one; groupByType returns one summary for each ticket
\* type, holding the summed quantity of the type, no summary before one with a
\* higher count. The sales come in every order.
C17_OneSummaryPerKeyInOrder ==
    /\ utilOut.fn = "groupByDate" =>
          LET out == utilOut.result
          IN  /\ {out[i].date : i \in 1..Len(out)} = SaleDates
              /\ Len(out) = Cardinality(SaleDates)
              /\ \A i, j \in 1..Len(out) : i < j => Before(out[i].date, out[j].date)
    /\ utilOut.fn = "groupByType" =>
          LET out == utilOut.result
          IN  /\ {out[i].type : i \in 1..Len(out)} = SaleTypes
              /\ Len(out) = Cardinality(SaleTypes)
              /\ \A i \in 1..Len(out) :
                    out[i].tickets
                      = QuantityOf({j \in 1..Len(salesIn) :
                                       salesIn[j].ticket_type = out[i].type}, salesIn)
              /\ \A i, j \in 1..Len(out) : i < j => out[i].tickets >= out[j].tickets

\* sales of 2 July, 1 July and 30 June, in that order, come out as 30 June, 1 July,
\* 2 July
C17_Witness ==
    /\ utilOut.fn = "groupByDate"
    /\ salesIn = <<UtilSale(<<Timestamp(Jul02, 10)>>, "Dagspass", 2),
                   UtilSale(<<Timestamp(Jul01, 10)>>, "Dagspass", 1),
                   UtilSale(<<Timestamp(Jun30, 22)>>, "Festivalpass", 1)>>
    /\ [i \in 1..3 |-> utilOut.result[i].date] = <<Jun30, Jul01, Jul02>>

\* C18: computeForecast returns null when the sales fall on fewer than two dates,
\* whatever the start date, and when the festival has no start date, and returns a
\* forecast otherwise.
C18_ForecastNullExactlyWhenTooFewDaysOrNoStart ==
    utilOut.fn = "computeForecast" =>
        /\ utilOut.result = <<>> <=> (Cardinality(SaleDates) < 2 \/ utilOut.start = <<>>)
        /\ utilOut.result # <<>> =>
              DOMAIN utilOut.result[1]
                = {"currentTotal", "avgPerDay", "projectedTotal", "daysUntilFestival"}

\* sales on one date only and a start date: no forecast
C18_Witness ==
    /\ utilOut.fn = "computeForecast"
    /\ Cardinality(SaleDates) = 1
    /\ utilOut.start = <<Jul02>>
    /\ utilOut.result = <<>>

\* C28: a forecast's daysUntilFestival is the number of whole days from the day of
\* the call to the start date, and 0 when the start date is that day or earlier;
\* its projectedTotal is the observed total plus the observed total per observed
\* day times daysUntilFestival, to the nearest whole ticket; so projectedTotal is at
\* least currentTotal, and equal to it when no days remain.
C28_ForecastArithmetic ==
    (utilOut.fn = "computeForecast" /\ utilOut.result # <<>>) =>
        LET f == utilOut.result[1]
            observedDays == Cardinality(SaleDates)
            observed == QuantityOf({i \in 1..Len(salesIn) : salesIn[i].sold_at # <<>>},
                                   salesIn)
            callDay == utilOut.today - (utilOut.today % TicksPerDay)
            wholeDays == (getTime(utilOut.start[1]) - callDay) \div TicksPerDay
            exactTimesDays == observed * observedDays + observed * f.daysUntilFestival
        IN  /\ f.daysUntilFestival >= 0
            /\ f.daysUntilFestival = (IF wholeDays > 0 THEN wholeDays ELSE 0)
            /\ f.currentTotal = observed
            /\ 2 * exactTimesDays - observedDays < 2 * f.projectedTotal * observedDays
            /\ 2 * f.projectedTotal * observedDays <= 2 * exactTimesDays + observedDays
            /\ f.projectedTotal >= f.currentTotal
            /\ f.daysUntilFestival = 0 => f.projectedTotal = f.currentTotal

\* called in the afternoon of 1 July for a festival that starts on 2 July: one
\* day remains; three tickets on two days project to 3 + 1.5, which is 5
C28_Witness ==
    /\ utilOut.fn = "computeForecast"
    /\ utilOut.start = <<Jul02>>
    /\ utilOut.today = getTime(Jul01) + 1
    /\ utilOut.result # <<>>
    /\ utilOut.result[1].daysUntilFestival = 1
    /\ utilOut.result[1].currentTotal = 3
    /\ utilOut.result[1].projectedTotal = 5

\* C28 as stated: projectedTotal is exactly the observed total plus the observed
\* total per observed day times daysUntilFestival.
C28_ProjectedTotalIsExact ==
    (utilOut.fn = "computeForecast" /\ utilOut.result # <<>>) =>
        LET f == utilOut.result[1]
            observedDays == Len(utilOut.dailySales)
        IN  f.projectedTotal * observedDays
                = f.currentTotal * observedDays + f.currentTotal * f.daysUntilFestival

\* the sum of a column over the summaries of a grouping
RECURSIVE SumColumn(_, _)
SumColumn(out, col) ==
    IF out = <<>> THEN 0 ELSE Head(out)[col] + SumColumn(Tail(out), col)

\* C30: whichever grouping ran, its summaries' ticket counts add up to the summed
\* quantity of all the sales and their revenues to the summed price times
\* quantity, and totalStats reports those two sums.
C30_GroupingsPreserveTotals ==
    LET all == 1..Len(salesIn)
        tickets == QuantityOf(all, salesIn)
        revenue == 100 * tickets
    IN  /\ utilOut.fn \in {"groupByDate", "groupByType", "groupByChannel"} =>
              /\ SumColumn(utilOut.result, "tickets") = tickets
              /\ SumColumn(utilOut.result, "revenue") = revenue
        /\ utilOut.fn = "totalStats" =>
              /\ utilOut.result.totalTickets = tickets
              /\ utilOut.result.totalRevenue = revenue

\* a rendered number with exactly two decimals: integer part, point, two digits
TwoDecimals(cell) ==
    /\ Len(cell) = 4
    /\ cell[1] \in Nat
    /\ cell[2] = "."
    /\ cell[3] \in 0..9
    /\ cell[4] \in 0..9

\* C13: whichever CSV exporter ran, a numeric cell written from a null price, amount
\* or VAT amount is empty, and every other numeric cell has exactly two decimals.
C13_NumbersHaveTwoDecimalsAndNullIsEmpty ==
    \A i \in 1..Len(csvNumbers) :
        IF csvNumbers[i].value = <<>>
        THEN csvNumbers[i].cell = <<>>
        ELSE TwoDecimals(csvNumbers[i].cell)

\* ======================================================================
\* Ledger aggregation: properties
\* ======================================================================
\* the VAT amount of a record: the stored one, or ex-VAT times rate when it is null
ExpectedVat(r) ==
    IF r.kind = "sale"
    THEN Coalesce(r.vat_amount,
                  Times(Coalesce(r.price_ex_vat, 0), Coalesce(r.vat_rate, 0))) * r.quantity
    ELSE Coalesce(r.vat_amount,
                  Times(Coalesce(r.amount_ex_vat, 0), Coalesce(r.vat_rate, 0)))

\* the kinds of record a path reports VAT for
PathKinds(path) ==
    CASE path \in {"groupSalesByVat", "exportAccountingTicketsCsv", "totalStats"} -> {"sale"}
      [] path \in {"exportEconomyCsv", "generateAnnualReportPdf"} -> {"income", "expense"}
      [] path \in {"exportAccountingVatCsv", "exportAccountingSummaryCsv"} ->
            {"sale", "income", "expense"}

\* the records of a kind that a path reports on: every path but the economy export
\* leaves budget rows out
Covered(path, kind) ==
    IF kind = "sale" \/ path = "exportEconomyCsv" THEN OfKind(kind)
    ELSE Actual(OfKind(kind))

RECURSIVE ExpectedVatSum(_)
ExpectedVatSum(rs) ==
    IF rs = <<>> THEN 0 ELSE ExpectedVat(Head(rs)) + ExpectedVatSum(Tail(rs))

RECURSIVE ReportedVat(_, _, _)
ReportedVat(path, lines, kind) ==
    IF lines = <<>> THEN 0
    ELSE (IF Head(lines).source # kind THEN 0
          ELSE IF path = "generateAnnualReportPdf"
               THEN Head(lines).incVat
               ELSE Head(lines).vat)
         + ReportedVat(path, Tail(lines), kind)

\* C10: whichever path ran, the VAT it reports for a kind of record is the sum of
\* the records' VAT amounts, with ex-VAT times rate standing in for a null VAT
\* amount (for the report totals, which include VAT: ex-VAT plus that amount).
C10_NullVatFallsBackOnEveryPath ==
    vatOut.path # "none" =>
        \A kind \in PathKinds(vatOut.path) :
            ReportedVat(vatOut.path, vatOut.lines, kind)
                = ExpectedVatSum(Covered(vatOut.path, kind))
                  + (IF vatOut.path = "generateAnnualReportPdf"
                     THEN SumOver(Covered(vatOut.path, kind), "exVat")
                     ELSE 0)

\* the rows of a rate, a null rate counted as rate 0
RowsAtRate(sales, rate) ==
    {i \in 1..Len(sales) : (IF sales[i].vat_rate = <<>> THEN 0 ELSE sales[i].vat_rate[1]) = rate}

\* the quantity-weighted sum of a stored amount over rows, a null amount adding 0
RECURSIVE WeightedSum(_, _, _)
WeightedSum(sales, idx, field) ==
    IF idx = {} THEN 0
    ELSE LET i == CHOOSE j \in idx : TRUE
             amount == IF field = "quantity" THEN 1
                       ELSE IF sales[i][field] = <<>> THEN 0 ELSE sales[i][field][1]
         IN  amount * sales[i].quantity + WeightedSum(sales, idx \ {i}, field)

\* C11: groupSalesByVat returns one bucket per distinct rate of the sales (no rate
\* counting as rate 0), highest rate first, and each bucket holds the
\* quantity-weighted sums of its rows' ex-VAT, VAT and incl-VAT amounts and the
\* summed quantity.
C11_OneBucketPerRateWithWeightedSums ==
    vatOut.path = "groupSalesByVat" =>
        LET sales == OfKind("sale")
            B == vatOut.buckets
        IN  /\ {B[b].rate : b \in 1..Len(B)}
                  = {r \in 0..100 : RowsAtRate(sales, r) # {}}
            /\ \A a, b \in 1..Len(B) : a < b => B[a].rate > B[b].rate
            /\ \A b \in 1..Len(B) :
                  LET idx == RowsAtRate(sales, B[b].rate)
                  IN  /\ B[b].exVat = WeightedSum(sales, idx, "price_ex_vat")
                      /\ B[b].vatAmount = WeightedSum(sales, idx, "vat_amount")
                      /\ B[b].incVat = WeightedSum(sales, idx, "price_inc_vat")
                      /\ B[b].count = WeightedSum(sales, idx, "quantity")

\* the two rows at 25 % (80 x 2 and 100 x 1) and a row without a rate: the 25 %
\* bucket comes first with 260, 65, 325 and 3
C11_Witness ==
    /\ vatOut.path = "groupSalesByVat"
    /\ records = <<SaleRow(1, <<100>>, <<>>, <<>>, <<100>>),
                   SaleRow(2, <<80>>, <<25>>, <<20>>, <<100>>),
                   SaleRow(1, <<100>>, <<25>>, <<25>>, <<125>>)>>
    /\ Len(vatOut.buckets) = 2
    /\ vatOut.buckets[1] = [rate |-> 25, label |-> <<25, "%">>, exVat |-> 260,
                            vatAmount |-> 65, incVat |-> 325, count |-> 3]
    /\ vatOut.buckets[2].rate = 0

\* the line of an output with a given label
LineOf(label) == CHOOSE l \in Range(vatOut.lines) : l.label = label

\* C12: the RESULTAT line of the summary export is its SUM INNTEKTER line (ticket
\* sales, food and drink and other income together) less its SUM KOSTNADER line in
\* the ex-VAT, the VAT and the incl-VAT column, and the RESULTAT row of the annual
\* report is its Sum inntekter less its Sum kostnader.
C12_ResultIsIncomeLessExpenses ==
    /\ vatOut.path = "exportAccountingSummaryCsv" =>
          /\ \A col \in {"exVat", "vat", "incVat"} :
                /\ LineOf("SUM INNTEKTER")[col]
                      = LineOf("Billettsalg")[col] + LineOf("Mat/drikke")[col]
                        + LineOf("Ovrig inntekt")[col]
                /\ LineOf("RESULTAT")[col]
                      = LineOf("SUM INNTEKTER")[col] - LineOf("SUM KOSTNADER")[col]
    /\ vatOut.path = "generateAnnualReportPdf" =>
          LineOf("RESULTAT").incVat
              = LineOf("Sum inntekter").incVat - LineOf("Sum kostnader").incVat

\* income of 1000 and expenses of 600 before VAT: RESULTAT is 400
C12_Witness ==
    /\ vatOut.path = "exportAccountingSummaryCsv"
    /\ LineOf("SUM INNTEKTER").exVat = 1000
    /\ LineOf("SUM KOSTNADER").exVat = 600
    /\ LineOf("RESULTAT").exVat = 400

\* ======================================================================
\* Row-level policies: properties
\* ======================================================================
\* C9: every row a SELECT returns belongs to the festival of the reader's profile,
\* and to the festival an administrator placed the reader in: no policy-permitted
\* operation of the reader's own widens what the reader sees.
C9_TenantIsolation ==
    lastRead.user # "none" =>
        /\ lastRead.festival_id = lastRead.profile_festival_id
        /\ lastRead.festival_id = lastRead.placed_in

\* ======================================================================
\* Budget against actual: properties
\* ======================================================================
\* the categories of the records in order of first appearance
RECURSIVE FirstSeen(_, _)
FirstSeen(recs, seen) ==
    IF recs = <<>> THEN seen
    ELSE FirstSeen(Tail(recs),
                   IF \E i \in 1..Len(seen) : seen[i] = Head(recs).category
                   THEN seen ELSE Append(seen, Head(recs).category))

\* the sum of amount_ex_vat over the records of a category that are, or are not, budget
RECURSIVE AmountOf(_, _, _)
AmountOf(recs, cat, is_budget) ==
    IF recs = <<>> THEN 0
    ELSE (IF Head(recs).category = cat /\ Head(recs).is_budget = is_budget
          THEN Coalesce(Head(recs).amount_ex_vat, 0) ELSE 0)
         + AmountOf(Tail(recs), cat, is_budget)

\* C27: the reconciliation has one row for each category of the income records
\* followed by one row for each category of the expense records; a row's budget is
\* the sum of amount_ex_vat over the budget records of its kind and category and
\* its actual the sum over the others of its kind and category, so that no record
\* of the other kind enters it, equal labels or not.
C27_OneRowPerKindAndCategory ==
    budgetOut.page # "none" =>
        LET inc == FirstSeen(incomeRecords, <<>>)
            exp == FirstSeen(expenseRecords, <<>>)
            rows == budgetOut.rows
        IN  /\ Len(rows) = Len(inc) + Len(exp)
            /\ \A i \in 1..Len(inc) :
                  /\ rows[i].budget = AmountOf(incomeRecords, inc[i], TRUE)
                  /\ rows[i].actual = AmountOf(incomeRecords, inc[i], FALSE)
            /\ \A i \in 1..Len(exp) :
                  /\ rows[Len(inc) + i].budget = AmountOf(expenseRecords, exp[i], TRUE)
                  /\ rows[Len(inc) + i].actual = AmountOf(expenseRecords, exp[i], FALSE)

\* income and an expense both filed under "other" on the economy page: two rows
\* with the same label, 100 in one and 30 in the other
C27_Witness ==
    /\ budgetOut.page = "EconomyPage"
    /\ Len(incomeRecords) = 1 /\ incomeRecords[1].category = "other"
    /\ Len(expenseRecords) = 1 /\ expenseRecords[1].category = "other"
    /\ Len(budgetOut.rows) = 2
    /\ budgetOut.rows[1] = [category |-> "Annet", budget |-> 0, actual |-> 100]
    /\ budgetOut.rows[2] = [category |-> "Annet", budget |-> 30, actual |-> 0]

\* ======================================================================
\* Deactivating a user: properties
\* ======================================================================
\* request r is answered in this step
Answered(r) == toggle[r].pc # "done" /\ toggle'[r].pc = "done"

\* the request passes every check of the handler
Entitled(r) ==
    LET caller == getUser(toggle[r].authHeader)
        target == toggle[r].user_id
    IN  /\ caller # <<>>
        /\ ToggleProfiles[caller[1]].role = "admin"
        /\ target # <<>>
        /\ target # caller
        /\ ToggleProfiles[target[1]].festival_id = ToggleProfiles[caller[1]].festival_id

\* a ban changes only in the step that answers 200 to an entitled request, and
\* only the target's
OnlyEntitledRequestsChangeBans ==
    banned' # banned =>
        \E r \in ToggleRequests :
            /\ Answered(r) /\ toggle'[r].status = 200
            /\ Entitled(r)
            /\ \A id \in AuthUsers \ {toggle[r].user_id[1]} : banned'[id] = banned[id]

\* a request answered 401, 403 or 400 changes no ban
RejectedRequestsChangeNothing ==
    \A r \in ToggleRequests :
        (Answered(r) /\ toggle'[r].status \in {400, 401, 403}) => banned' = banned

\* a request answered 200 turns a banned target into one that is not, and the reverse
AcceptedRequestsFlip ==
    \A r \in ToggleRequests :
        (Answered(r) /\ toggle'[r].status = 200) =>
            banned'[toggle[r].user_id[1]] = ~banned[toggle[r].user_id[1]]

\* the two parts of C26 that hold in every interleaving
ToggleGuarded == [][OnlyEntitledRequestsChangeBans /\ RejectedRequestsChangeNothing]_vars

\* C26: a ban changes only through a request of an authenticated administrator
\* for another user of the administrator's festival; a request answered 401, 403
\* or 400 changes no ban; a request answered 200 flips its target's ban.
C26_ToggleUser ==
    [][/\ OnlyEntitledRequestsChangeBans
       /\ RejectedRequestsChangeNothing
       /\ AcceptedRequestsFlip]_vars

\* ======================================================================
\* PDF reports: properties
\* ======================================================================
\* the near-bottom threshold of the report being laid out
Threshold ==
    IF pdfIn.report = "sponsor" THEN SponsorReportThreshold ELSE AnnualReportThreshold

\* the headers of the sponsor report, and the sponsors' header of the annual
\* report, are drawn at or above the threshold
CheckedHeadersAboveThreshold ==
    \A i \in 1..Len(pdfHeaders) :
        (pdfIn.report = "sponsor" \/ pdfHeaders[i].section = "Sponsorer") =>
            pdfHeaders[i].y <= Threshold

\* C29: every section header of either report is drawn with the cursor at or
\* above the report's near-bottom threshold.
C29_HeadersAboveThreshold ==
    \A i \in 1..Len(pdfHeaders) : pdfHeaders[i].y <= Threshold

\* ======================================================================
\* AuthProvider, App and SetPasswordPage: properties
\* ======================================================================
\* C23: with the session null and no fetch in flight, profile and festival are null.
C23_SignedOutMeansNoProfile ==
    (authSession = <<>> /\ inFlight = {}) => (authProfile = <<>> /\ authFestival = <<>>)

\* C24: while the user is signed in and either the user's profile row has
\* has_password false or the user arrived through a recovery link and has set no
\* password since, App does not render the authenticated routes.
C24_NoAuthenticatedRoutesBeforePassword ==
    (authSession # <<>> /\ (dbProfile.has_password = FALSE \/ arrivedByRecovery))
        => Routes # "AuthenticatedRoutes"

\* C25: loading becomes false after the mount, whatever the session lookup and
\* the fetches that follow it come to, and stays false.
C25_LoadingEventuallyFalse ==
    /\ authLoading ~> ~authLoading
    /\ [][~authLoading => ~authLoading']_vars

\* the profile fetch of the session lookup failed: the session is set, no profile
\* is, and loading is false
C25_Witness ==
    /\ ~authLoading
    /\ authSession # <<>>
    /\ authProfile = <<>>
    /\ Awaited("fetchProfile", "getSession") \notin inFlight
    /\ Awaited("fetchFestival", "getSession") \notin inFlight

====
